---- MODULE Spec2Model ----
(***************************************************************************)
(* A model of the grid / support index layer and of the spline algebra of  *)
(* the BSplinebasis library.                                               *)
(*                                                                         *)
(* Conventions.                                                            *)
(*  - A grid object is the pair (_size, _data) of class grid; _data is a   *)
(*    pointer into heap, 0 is the null pointer.  Copies of a grid share    *)
(*    the pointer, exactly as the shared_ptr does.                         *)
(*  - assert(c) is a checked precondition: when c is false the call ends   *)
(*    there and produces no object.  The assertion hasSameGrid(s) of       *)
(*    calcUnion / calcIntersection is the library's DifferingGrids check.  *)
(*  - Every call leaves a record of what it returned in res, the name of   *)
(*    the call in op and its arguments in args.                            *)
(*  - A spline of class myspline is the record of its order, _intervals    *)
(*    and _coefficients.  A call on splines leaves the spline it returned  *)
(*    in sres, its name in sop, and its scalar arguments and results in    *)
(*    scall; nmut counts the calls that changed the first spline in place. *)
(*  - The type T is modelled by the integers: the splines that are         *)
(*    evaluated have break points that are multiples of four, which keeps  *)
(*    interval midpoints exact, and divisors are the units 1 and -1.       *)
(*    Where the code forms a fraction 1/d with another d, the values are   *)
(*    held in units of 1/U for a common multiple U of the divisors, so     *)
(*    that 1/d is the integer U/d (PositionUnit, KnotUnit).                *)
(*  - A BSplineGenerator is the record bsg of its _knots and _grid, the    *)
(*    grid being the sequence of its values.  The splines it returns are   *)
(*    records like those of myspline: the break points are the grid points *)
(*    of the support.  gop, gcall and gres hold the name, the arguments    *)
(*    and the outcome of the last call.                                    *)
(***************************************************************************)
EXTENDS Integers, Sequences, FiniteSets, TLC

VARIABLES heap, grids, sup, op, args, res,     \* grids and supports
          spl, mgrid, sop, sres, scall, nmut,    \* splines of class myspline
          im, routine, ipc, isup, interv, visited, ires, \* integration
          bsg, gop, gcall, gres                  \* BSplineGenerator

supportVars == <<heap, grids, sup, op, args, res>>
splineVars == <<spl, mgrid, sop, sres, scall, nmut>>
integVars == <<im, routine, ipc, isup, interv, visited, ires>>
generatorVars == <<bsg, gop, gcall, gres>>

vars == <<supportVars, splineVars, integVars, generatorVars>>

----------------------------------------------------------------------------
(* Bounds of the model.                                                    *)

MaxGridLen == 3
MaxBreak == 3
MaxOrder == 1
MaxCoef == 12
MaxPolyOrder == 3
MaxMut == 1
MaxK == 3
MaxKnots == 6
MaxShortKnots == 4
MaxIntegOrder == 2

----------------------------------------------------------------------------
(* Small helpers.                                                          *)

Min2(x, y) == IF x <= y THEN x ELSE y
Max2(x, y) == IF x >= y THEN x ELSE y
MinOf(S) == CHOOSE x \in S : \A y \in S : x <= y

(* Outcomes of a call that produces no value.                              *)
NoError == "ok"
AssertionFailed == "AssertionFailed"
DifferingGrids == "DifferingGrids"

----------------------------------------------------------------------------
(* Input vectors a grid is built from: increasing ramps of every length,   *)
(* a shifted ramp of full length, and vectors that repeat or reverse a     *)
(* value.                                                                  *)

Ramp(n, off) == [i \in 1..n |-> off + i - 1]
Stall(n) == [i \in 1..n |-> IF i = n THEN n - 2 ELSE i - 1]
Rev(n) == [i \in 1..n |-> n - i]

GridInputs ==
  {Ramp(n, 0) : n \in 0..MaxGridLen}
    \cup {Ramp(MaxGridLen, 1), Stall(MaxGridLen), Rev(2)}

GridSlots == {1, 2}
Regs == {"a", "b"}

(* Register a is constructed on the grid of slot 1, register b on the grid *)
(* of slot 2; the two slots may hold copies of one grid.                   *)
SlotOf(r) == IF r = "a" THEN 1 ELSE 2

----------------------------------------------------------------------------
(* class grid                                                              *)

NullPtr == 0
NoGrid == [size |-> 0, data |-> -1]
NoSupport == [grid |-> NoGrid, start |-> 0, end |-> 0]

(* grid::operator[] : _data[i]                                             *)
GridAt(g, i) == heap[g.data][i + 1]

(* The elementwise loop of grid::operator==, entered with equal sizes:     *)
(* the number of element comparisons it makes.                             *)
GridScanCount(g, h) ==
  LET diff == {i \in 0..(g.size - 1) : GridAt(g, i) # GridAt(h, i)}
  IN IF diff = {} THEN g.size ELSE MinOf(diff) + 1

GridScanEqualFirst(g, h) ==
  \A i \in 0..Min2(0, g.size - 1) : GridAt(g, i) = GridAt(h, i)

GridScanEqual(g, h) ==
  \A i \in 0..(g.size - 1) : GridAt(g, i) = GridAt(h, i)

(* The identity shortcut of grid::operator==.                              *)
GridSamePointer(g, h) == g.data = h.data
GridSameStorage(g, h) == g.data = h.data /\ g.size = h.size

(* grid::operator==, with the number of element comparisons made.          *)
GridEq(g, h) ==
  IF GridSameStorage(g, h) THEN [eq |-> TRUE, scanned |-> 0]
  ELSE IF g.size # h.size THEN [eq |-> FALSE, scanned |-> 0]
  ELSE [eq |-> GridScanEqual(g, h), scanned |-> GridScanCount(g, h)]

(* support::hasSameGrid of include/spline-internal.h, where a grid is a     *)
(* shared pointer to a vector: p and q are the two pointers.               *)
VecScanCount(p, q) ==
  LET diff == {i \in 1..Len(heap[p]) : heap[p][i] # heap[q][i]}
  IN IF diff = {} THEN Len(heap[p]) ELSE MinOf(diff)

hasSameGridVec(p, q) ==
  IF p = q THEN [eq |-> TRUE, scanned |-> 0]
  ELSE IF Len(heap[p]) # Len(heap[q]) THEN [eq |-> FALSE, scanned |-> 0]
  ELSE [eq |-> \A i \in 1..Len(heap[p]) : heap[p][i] = heap[q][i],
        scanned |-> VecScanCount(p, q)]

----------------------------------------------------------------------------
(* class support                                                           *)

Blank == [err |-> NoError, sup |-> NoSupport, bool |-> FALSE, num |-> 0,
          scanned |-> 0]
NoArgs == [gx |-> 0, gy |-> 0, x |-> "", y |-> "", n |-> 0]

Returned(s) == [Blank EXCEPT !.sup = s]
Failed(e) == [Blank EXCEPT !.err = e]

(* The assertion of support(grid, startIndex, endIndex).                   *)
SupportCtorAssertNoOrder(g, s, e) == e <= g.size
SupportCtorAssert(g, s, e) == e >= s /\ e <= g.size

(* support(grid, startIndex, endIndex)                                     *)
SupportCtor(g, s, e) ==
  IF SupportCtorAssert(g, s, e)
  THEN Returned([grid |-> g, start |-> s, end |-> e])
  ELSE Failed(AssertionFailed)

(* support(grid, constr)                                                   *)
SupportCtorConstr(g, constr) ==
  Returned([grid |-> g, start |-> 0,
            end |-> IF constr = "EMPTY" THEN 0 ELSE g.size])

size(s) == s.end - s.start
empty(s) == s.start = s.end
containsIntervals(s) == size(s) > 1
(* The number of grid points taken for the number of intervals.            *)
numberOfIntervalsAsSize(s) == size(s)

numberOfIntervals(s) == IF size(s) = 0 THEN 0 ELSE size(s) - 1

(* std::optional<RelativeIndex> : bool is has_value(), num the value.      *)
relativeFromAbsoluteInclusive(s, index) ==
  IF index >= s.start /\ index <= s.end
  THEN [Blank EXCEPT !.bool = TRUE, !.num = index - s.start]
  ELSE [Blank EXCEPT !.bool = FALSE]
relativeFromAbsolute(s, index) ==
  IF index >= s.start /\ index < s.end
  THEN [Blank EXCEPT !.bool = TRUE, !.num = index - s.start]
  ELSE [Blank EXCEPT !.bool = FALSE]

absoluteFromRelative(s, index) ==
  IF index < size(s)
  THEN [Blank EXCEPT !.num = index + s.start]
  ELSE Failed(AssertionFailed)

hasSameGridSizeOnly(this, s) == this.grid.size = s.grid.size
hasSameGrid(this, s) == GridEq(this.grid, s.grid).eq

SupportEqIndicesOnly(this, s) ==
  hasSameGrid(this, s) /\ this.start = s.start /\ this.end = s.end

(* support::operator==                                                     *)
SupportEq(this, s) ==
  hasSameGrid(this, s)
    /\ ((this.start = s.start /\ this.end = s.end) \/ (empty(this) /\ empty(s)))

unionStartIndexMax(this, s) == Max2(this.start, s.start)
unionStartIndex(this, s) == Min2(this.start, s.start)
unionEndIndex(this, s) == Max2(this.end, s.end)

(* support::calcUnion                                                      *)
calcUnion(this, s) ==
  IF ~hasSameGrid(this, s) THEN Failed(DifferingGrids)
  ELSE IF empty(this) /\ empty(s) THEN SupportCtorConstr(this.grid, "EMPTY")
  ELSE IF empty(this) /\ ~empty(s) THEN Returned(s)
  ELSE IF ~empty(this) /\ empty(s) THEN Returned(this)
  ELSE SupportCtor(this.grid, unionStartIndex(this, s), unionEndIndex(this, s))

intersectionStartIndex(this, s) == Max2(this.start, s.start)
intersectionEndIndexMax(this, s) == Max2(this.end, s.end)
intersectionEndIndex(this, s) == Min2(this.end, s.end)

(* support::calcIntersection                                               *)
calcIntersection(this, s) ==
  IF ~hasSameGrid(this, s) THEN Failed(DifferingGrids)
  ELSE IF intersectionStartIndex(this, s) >= intersectionEndIndex(this, s)
  THEN SupportCtorConstr(this.grid, "EMPTY")
  ELSE SupportCtor(this.grid, intersectionStartIndex(this, s),
                   intersectionEndIndex(this, s))

----------------------------------------------------------------------------
(* class myspline<T, order>: break points _intervals and one coefficient   *)
(* array of order + 1 entries per interval.  The order is a template       *)
(* parameter; it is carried in the record.                                 *)

Splines == {"m1", "m2"}

EmptySpline(order) ==
  [order |-> order, intervals |-> <<>>, coefficients |-> <<>>]

SplineReturned(m) == [err |-> NoError, spline |-> m]
SplineFailed(e) == [err |-> e, spline |-> EmptySpline(0)]

(* The scalar arguments of a call (x, y, n) and what it returned besides a *)
(* spline: an interval index, a value of type T, a bool.                   *)
NoCall == [x |-> 0, y |-> 0, n |-> 0, index |-> -1, val |-> 0, bool |-> FALSE]

(* make_array<T, size>(val)                                                *)
make_array(n, val) == [k \in 1..n |-> val]

(* add(a, b) with the entries of the shorter array left out beyond the     *)
(* length they share.                                                      *)
addCommonOnly(a, b) ==
  [k \in 1..Max2(Len(a), Len(b)) |->
     IF k <= Min2(Len(a), Len(b)) THEN a[k] + b[k] ELSE 0]

(* add(a, b): elementwise sum of two arrays of possibly different length   *)
add(a, b) ==
  [k \in 1..Max2(Len(a), Len(b)) |->
     (IF k <= Len(a) THEN a[k] ELSE 0) + (IF k <= Len(b) THEN b[k] ELSE 0)]

(* changearraysize<T, sizein, sizeout>(in)                                 *)
changearraysize(in, sizeout) ==
  [k \in 1..sizeout |-> IF k <= Len(in) THEN in[k] ELSE 0]

RECURSIVE SortedSeqOf(_)
SortedSeqOf(S) ==
  IF S = {} THEN <<>>
  ELSE LET m == MinOf(S) IN <<m>> \o SortedSeqOf(S \ {m})

(* makeuniquesorted(list): std::sort followed by std::unique               *)
makeuniquesorted(list) == SortedSeqOf({list[i] : i \in DOMAIN list})

(* std::distance(v.begin(), std::find(v.begin(), v.end(), x))              *)
FindIndex(v, x) ==
  IF \E i \in DOMAIN v : v[i] = x
  THEN MinOf({i \in DOMAIN v : v[i] = x}) - 1
  ELSE Len(v)

(* myspline::steadilyIncreasingIntervals                                   *)
steadilyIncreasingIntervals(iv) ==
  \A i \in 2..Len(iv) : ~(iv[i - 1] >= iv[i])

(* The two assertions of the constructor and of setData.                   *)
mysplineAssert(iv, cf) ==
  /\ \/ (Len(iv) = 0 /\ Len(cf) = 0)
     \/ (Len(iv) >= 2 /\ Len(cf) + 1 = Len(iv))
  /\ steadilyIncreasingIntervals(iv)

(* myspline(intervals, coefficients)                                       *)
mysplineCtor(order, iv, cf) ==
  IF mysplineAssert(iv, cf)
  THEN SplineReturned([order |-> order, intervals |-> iv, coefficients |-> cf])
  ELSE SplineFailed(AssertionFailed)

(* myspline::setData: the members are assigned before the assertions run,  *)
(* so the spline holds the new data also when an assertion fails.          *)
setData(order, iv, cf) ==
  [err |-> IF mysplineAssert(iv, cf) THEN NoError ELSE AssertionFailed,
   spline |-> [order |-> order, intervals |-> iv, coefficients |-> cf]]

(* operator*(const T &d) returning the copy without scaling it.            *)
scalarTimesCopyOnly(m, d) == m

(* myspline::operator*(const T &d)                                         *)
scalarTimes(m, d) ==
  [m EXCEPT !.coefficients =
     [i \in DOMAIN m.coefficients |->
        [k \in DOMAIN m.coefficients[i] |-> m.coefficients[i][k] * d]]]

(* myspline::checkOverlap                                                  *)
checkOverlap(this, m2) ==
  IF Len(this.intervals) = 0 \/ Len(m2.intervals) = 0 THEN FALSE
  ELSE ~(\/ m2.intervals[Len(m2.intervals)] <= this.intervals[1]
         \/ m2.intervals[1] >= this.intervals[Len(this.intervals)])

(* internal::findOverlappingIntervals: start indices and interval count    *)
findOverlappingIntervals(a, b) ==
  IF ~checkOverlap(a, b)
  THEN [err |-> NoError, startindex1 |-> 0, startindex2 |-> 0, nintervals |-> 0]
  ELSE IF b.intervals[1] <= a.intervals[1]
  THEN LET s2 == FindIndex(b.intervals, a.intervals[1])
       IN IF Len(b.intervals) >= s2 + 2
          THEN [err |-> NoError, startindex1 |-> 0, startindex2 |-> s2,
                nintervals |-> Min2(Len(b.intervals) - s2 - 1,
                                    Len(a.intervals) - 0 - 1)]
          ELSE [err |-> AssertionFailed, startindex1 |-> 0,
                startindex2 |-> s2, nintervals |-> 0]
  ELSE LET s1 == FindIndex(a.intervals, b.intervals[1])
       IN IF Len(a.intervals) >= s1 + 2
          THEN [err |-> NoError, startindex1 |-> s1, startindex2 |-> 0,
                nintervals |-> Min2(Len(b.intervals) - 0 - 1,
                                    Len(a.intervals) - s1 - 1)]
          ELSE [err |-> AssertionFailed, startindex1 |-> s1,
                startindex2 |-> 0, nintervals |-> 0]

(* The inner loops of operator* with = in place of +=: every entry keeps   *)
(* the last product written to it.                                         *)
convolveOverwrite(thiscoeffs, acoeffs) ==
  [k \in 1..(Len(thiscoeffs) + Len(acoeffs) - 1) |->
     LET j == Min2(k - 1, Len(thiscoeffs) - 1)
     IN thiscoeffs[j + 1] * acoeffs[k - j]]

(* The discrete convolution of the inner loops of operator*.               *)
convolve(thiscoeffs, acoeffs) ==
  LET n == Len(thiscoeffs) + Len(acoeffs) - 1
      pairs(m) == {j \in 0..(Len(thiscoeffs) - 1) :
                     m - j >= 0 /\ m - j <= Len(acoeffs) - 1}
      RECURSIVE sumOver(_, _)
      sumOver(m, J) ==
        IF J = {} THEN 0
        ELSE LET j == MinOf(J)
             IN thiscoeffs[j + 1] * acoeffs[m - j + 1] + sumOver(m, J \ {j})
  IN [k \in 1..n |-> sumOver(k - 1, pairs(k - 1))]

(* myspline::operator*(const myspline<T, ordera> &a)                       *)
operatorTimes(this, a) ==
  LET f == findOverlappingIntervals(this, a)
      NEW_ORDER == this.order + a.order
  IN IF f.err # NoError THEN SplineFailed(f.err)
     ELSE IF f.nintervals = 0 THEN SplineReturned(EmptySpline(NEW_ORDER))
     ELSE mysplineCtor(NEW_ORDER,
            [i \in 1..(f.nintervals + 1) |-> this.intervals[f.startindex1 + i]],
            [i \in 1..f.nintervals |->
               convolve(this.coefficients[i + f.startindex1],
                        a.coefficients[i + f.startindex2])])

(* The loop of operator+ and operator+= stopping one interval early and    *)
(* pushing zeros only.                                                     *)
mergedCoefficientsShort(this, a, nintervals, newsize) ==
  [i \in 1..(Len(nintervals) - 2) |-> make_array(newsize, 0)]

(* The loop of operator+ and operator+= that picks, for every interval of  *)
(* the merged break points, the coefficients of the operands found there.  *)
mergedCoefficients(this, a, nintervals, newsize) ==
  [i \in 1..Max2(Len(nintervals) - 1, 0) |->
     LET posthis == FindIndex(this.intervals, nintervals[i])
         posa == FindIndex(a.intervals, nintervals[i])
         thisexists == posthis < Len(this.coefficients)
         aexists == posa < Len(a.coefficients)
     IN IF thisexists /\ ~aexists
        THEN changearraysize(this.coefficients[posthis + 1], newsize)
        ELSE IF aexists /\ ~thisexists
        THEN changearraysize(a.coefficients[posa + 1], newsize)
        ELSE IF thisexists /\ aexists
        THEN add(a.coefficients[posa + 1], this.coefficients[posthis + 1])
        ELSE make_array(newsize, 0)]

(* myspline::operator+                                                     *)
operatorPlus(this, a) ==
  LET nintervals == makeuniquesorted(a.intervals \o this.intervals)
      NEW_ORDER == Max2(this.order, a.order)
  IN mysplineCtor(NEW_ORDER, nintervals,
                  mergedCoefficients(this, a, nintervals, NEW_ORDER + 1))

(* myspline::operator+= ; requires a.order <= this.order                   *)
operatorPlusAssign(this, a) ==
  LET nintervals == makeuniquesorted(a.intervals \o this.intervals)
  IN setData(this.order, nintervals,
                  mergedCoefficients(this, a, nintervals, this.order + 1))

(* myspline::operator-                                                     *)
operatorMinus(this, a) == operatorPlus(this, scalarTimes(a, -1))

(* myspline::operator-=                                                    *)
operatorMinusAssign(this, a) == operatorPlusAssign(this, scalarTimes(a, -1))

(* (_intervals[index+1] + _intervals[index]) / 2 for a 0-based index.  The *)
(* break points of the splines evaluated here are multiples of four, so    *)
(* that the division is exact.                                             *)
midpoint(iv, index) == (iv[index + 2] + iv[index + 1]) \div 2

(* The while loop of findInterval.                                         *)
RECURSIVE bisect(_, _, _, _)
bisect(iv, x, starti, endi) ==
  IF endi - starti > 1
  THEN LET middlei == (endi + starti) \div 2
       IN IF x > iv[middlei + 1] THEN bisect(iv, x, middlei, endi)
          ELSE bisect(iv, x, starti, middlei)
  ELSE starti

(* The range test of findInterval without the test against back().        *)
outsideSupportNoBack(iv, x) == Len(iv) < 2 \/ x < iv[1]

(* The range test of findInterval.                                         *)
outsideSupport(iv, x) == Len(iv) < 2 \/ x > iv[Len(iv)] \/ x < iv[1]

(* myspline::findInterval                                                  *)
findInterval(iv, x) ==
  IF outsideSupport(iv, x) THEN -1 ELSE bisect(iv, x, 0, Len(iv) - 1)

(* The loop of operator() over the coefficients of one interval.           *)
RECURSIVE powerSum(_, _, _, _, _)
powerSum(coeffs, dx, k, xpot, result) ==
  IF k > Len(coeffs) THEN result
  ELSE powerSum(coeffs, dx, k + 1, xpot * dx, result + xpot * coeffs[k])

(* myspline::operator()(const T &x)                                        *)
evaluate(m, x) ==
  LET index == findInterval(m.intervals, x)
  IN IF index < 0 THEN 0
     ELSE powerSum(m.coefficients[index + 1],
                   x - midpoint(m.intervals, index), 1, 1, 0)

(* myspline::isZero                                                        *)
isZero(m) ==
  IF Len(m.intervals) = 0 THEN TRUE
  ELSE \A i \in DOMAIN m.coefficients : \A k \in DOMAIN m.coefficients[i] :
         m.coefficients[i][k] = 0

(* static_cast<T>(1)/d of operator/ and operator/=; exact for the units.   *)
reciprocal(d) == 1 \div d

(* myspline::operator/(const T &d)                                         *)
scalarDivide(m, d) == scalarTimes(m, reciprocal(d))

(* myspline::operator=(const myspline<T, ordera> &a), ordera <= order      *)
assignRaise(this, a) ==
  setData(this.order, a.intervals,
          [i \in DOMAIN a.coefficients |->
             changearraysize(a.coefficients[i], this.order + 1)])

(* The test of restrictSupport that keeps interval i (0-based), with a     *)
(* strict comparison against x0.                                           *)
insideStrict(iv, i, x0, x1) == iv[i + 1] > x0 /\ iv[i + 2] <= x1

(* The test of restrictSupport that keeps interval i (0-based).            *)
inside(iv, i, x0, x1) == iv[i + 1] >= x0 /\ iv[i + 2] <= x1

(* The loop of restrictSupport from interval i on.                         *)
RECURSIVE restrictLoop(_, _, _, _, _, _)
restrictLoop(m, x0, x1, i, nintervals, ncoeffs) ==
  IF ~(i + 1 < Len(m.intervals))
  THEN [nintervals |-> nintervals, ncoeffs |-> ncoeffs]
  ELSE IF inside(m.intervals, i, x0, x1)
  THEN LET last == i + 2 >= Len(m.intervals) \/ m.intervals[i + 3] > x1
           pushed == IF last
                     THEN nintervals \o <<m.intervals[i + 1], m.intervals[i + 2]>>
                     ELSE Append(nintervals, m.intervals[i + 1])
       IN restrictLoop(m, x0, x1, i + 1, pushed,
                       Append(ncoeffs, m.coefficients[i + 1]))
  ELSE restrictLoop(m, x0, x1, i + 1, nintervals, ncoeffs)

(* myspline::restrictSupport                                               *)
restrictSupport(m, x0, x1) ==
  LET r == restrictLoop(m, x0, x1, 0, <<>>, <<>>)
  IN mysplineCtor(m.order, r.nintervals, r.ncoeffs)

(* The coefficients timesx computes for one interval with midpoint xm,     *)
(* with the midpoint term left out.                                        *)
timesxCoeffsShiftOnly(coeffs_old, xm) ==
  [j1 \in 1..(Len(coeffs_old) + 1) |->
     IF j1 - 1 > 0 THEN coeffs_old[j1 - 1] ELSE 0]

(* The coefficients timesx computes for one interval with midpoint xm.     *)
timesxCoeffs(coeffs_old, xm) ==
  [j1 \in 1..(Len(coeffs_old) + 1) |->
     (IF j1 - 1 > 0 THEN coeffs_old[j1 - 1] ELSE 0)
       + (IF j1 - 1 < Len(coeffs_old) THEN xm * coeffs_old[j1] ELSE 0)]

(* myspline::timesx                                                        *)
timesx(m) ==
  mysplineCtor(m.order + 1, m.intervals,
    [i \in DOMAIN m.coefficients |->
       timesxCoeffs(m.coefficients[i], midpoint(m.intervals, i - 1))])

(* The sign invert gives coefficient j (0-based), without the parity rule. *)
invertSignPlain(j) == IF j >= 0 THEN 1 ELSE -1

(* The sign invert gives coefficient j (0-based).                          *)
invertSign(j) == IF j % 2 = 0 THEN 1 ELSE -1

(* myspline::invert                                                        *)
invert(m) ==
  IF isZero(m) THEN SplineReturned(m)
  ELSE IF ~(Len(m.intervals) >= 1) THEN SplineFailed(AssertionFailed)
  ELSE LET n == Len(m.intervals)
           nc == Len(m.coefficients)
       IN mysplineCtor(m.order,
            [i \in 1..n |-> 0 - m.intervals[n + 1 - i]],
            [i \in 1..nc |->
               [j1 \in DOMAIN m.coefficients[nc + 1 - i] |->
                  invertSign(j1 - 1) * m.coefficients[nc + 1 - i][j1]]])

(* myspline::orderdx                                                       *)
orderdx(orderin, n) == IF n > orderin THEN 0 ELSE orderin - n

(* The factor of dx for coefficient i, with the loop cut after one pass.   *)
facultyOnePass(i, n) == IF n = 0 THEN 1 ELSE i

(* size_t faculty = 1; for (j = 0; j < n; j++) faculty *= i - j;           *)
RECURSIVE faculty(_, _)
faculty(i, n) == IF n = 0 THEN 1 ELSE faculty(i, n - 1) * (i - (n - 1))

(* myspline::dx<n>                                                         *)
dx(m, n) ==
  IF n > m.order THEN SplineReturned(EmptySpline(0))
  ELSE mysplineCtor(orderdx(m.order, n), m.intervals,
         [ii \in DOMAIN m.coefficients |->
            [i1 \in 1..(orderdx(m.order, n) + 1) |->
               faculty(i1 - 1 + n, n) * m.coefficients[ii][i1 + n]]])

----------------------------------------------------------------------------
(* The analytical integrals of the legacy splines.  A value of type T that *)
(* an integral returns is held in units of 1 / IntegUnit, the least common *)
(* multiple of the divisors static_cast<T>(i + j + 1) and the like, so     *)
(* that every quotient of the code is an integer.                          *)

RECURSIVE Gcd(_, _)
Gcd(a, b) == IF b = 0 THEN a ELSE Gcd(b, a % b)

RECURSIVE LcmUpTo(_)
LcmUpTo(n) ==
  IF n <= 1 THEN 1
  ELSE LET l == LcmUpTo(n - 1) IN (l * n) \div Gcd(l, n)

IntegUnit == LcmUpTo(2 * MaxIntegOrder + 3)

(* 1 / static_cast<T>(d) in units of 1 / IntegUnit                         *)
over(d) == IntegUnit \div d

(* pow: square and multiply over the bits of n                             *)
RECURSIVE powLoop(_, _, _, _)
powLoop(a, n, power_of_2, ret) ==
  IF ~(power_of_2 <= n) THEN ret
  ELSE powLoop(a * a, n, power_of_2 * 2,
               IF (n \div power_of_2) % 2 = 1 THEN ret * a ELSE ret)

pow(a, n) == powLoop(a, n, 1, 1)

(* The lambda f of each routine: what the powers i of the first and j of   *)
(* the second spline add on one interval.                                  *)
integrandOf(r, i, j, coeffa, coeffb, dxhalf, xm) ==
  CASE r = "overlap" ->
         IF (i + j + 1) % 2 = 0 THEN 0
         ELSE 2 * coeffa * coeffb * pow(dxhalf, i + j + 1) * over(i + j + 1)
    [] r = "integrate_x" ->
         IF (i + j + 1) % 2 = 1
         THEN 2 * coeffa * coeffb * xm * pow(dxhalf, i + j + 1) * over(i + j + 1)
         ELSE 2 * coeffa * coeffb * pow(dxhalf, i + j + 2) * over(i + j + 2)
    [] r = "integrate_x2" ->
         IF (i + j + 2) % 2 = 1
         THEN 4 * coeffa * coeffb * xm * pow(dxhalf, i + j + 2) * over(i + j + 2)
         ELSE 2 * coeffa * coeffb * pow(dxhalf, i + j + 1)
                * (pow(dxhalf, 2) * over(i + j + 3)
                     + pow(xm, 2) * over(i + j + 1))
    [] r = "integrate_dx" ->
         IF j = 0 \/ (i + j) % 2 = 0 THEN 0
         ELSE (2 * j) * coeffa * coeffb * pow(dxhalf, i + j) * over(i + j)
    [] r = "integrate_x_dx" ->
         IF j = 0 THEN 0
         ELSE IF (i + j) % 2 = 0
         THEN (2 * j) * coeffa * coeffb * pow(dxhalf, i + j + 1) * over(i + j + 1)
         ELSE (2 * j) * xm * coeffa * coeffb * pow(dxhalf, i + j) * over(i + j)
    [] r = "integrate_dx2" ->
         IF j < 2 \/ (i + j) % 2 = 1 THEN 0
         ELSE (2 * j * (j - 1)) * coeffa * coeffb
                * pow(dxhalf, i + j - 1) * over(i + j - 1)
    [] r = "integrate_x_dx2" ->
         IF j < 2 THEN 0
         ELSE IF (i + j) % 2 = 1
         THEN (2 * j * (j - 1)) * coeffa * coeffb * pow(dxhalf, i + j) * over(i + j)
         ELSE (2 * j * (j - 1)) * coeffa * coeffb * xm
                * pow(dxhalf, i + j - 1) * over(i + j - 1)
    [] r = "integrate_x2_dx2" ->
         IF j < 2 THEN 0
         ELSE IF (i + j) % 2 = 1
         THEN (4 * j * (j - 1)) * xm * coeffa * coeffb
                * pow(dxhalf, i + j) * over(i + j)
         ELSE (2 * j * (j - 1)) * coeffa * coeffb * pow(dxhalf, i + j - 1)
                * (dxhalf * dxhalf * over(i + j + 1)
                     + xm * xm * over(i + j - 1))

(* Every routine with the lambda of overlap.                               *)
integrandOfOverlap(r, i, j, coeffa, coeffb, dxhalf, xm) ==
  integrandOf("overlap", i, j, coeffa, coeffb, dxhalf, xm)

(* f(i, j, coeffsa[i], coeffsb[j], dxhalf, xm) of routine r                *)
integrand(r, i, j, coeffa, coeffb, dxhalf, xm) ==
  integrandOf(r, i, j, coeffa, coeffb, dxhalf, xm)

(* internal::integrateInterval_analytically: the double loop, from the     *)
(* pair number n = i * sizeb + j on.                                       *)
RECURSIVE integrateIntervalLoop(_, _, _, _, _, _)
integrateIntervalLoop(r, coeffsa, coeffsb, dxhalf, xm, n) ==
  IF n >= Len(coeffsa) * Len(coeffsb) THEN 0
  ELSE LET i == n \div Len(coeffsb)
           j == n % Len(coeffsb)
       IN integrand(r, i, j, coeffsa[i + 1], coeffsb[j + 1], dxhalf, xm)
            + integrateIntervalLoop(r, coeffsa, coeffsb, dxhalf, xm, n + 1)

integrateInterval_analytically(r, coeffsa, coeffsb, x0, x1) ==
  integrateIntervalLoop(r, coeffsa, coeffsb, (x1 - x0) \div 2, (x1 + x0) \div 2, 0)

(* The loop of internal::helper_analytic_integration from interval interv  *)
(* on.                                                                     *)
RECURSIVE helperLoop(_, _, _, _, _)
helperLoop(r, m1, m2, f, k) ==
  IF ~(k < f.nintervals) THEN 0
  ELSE integrateInterval_analytically(r,
         m1.coefficients[f.startindex1 + k + 1],
         m2.coefficients[f.startindex2 + k + 1],
         m1.intervals[f.startindex1 + k + 1],
         m1.intervals[f.startindex1 + k + 2])
       + helperLoop(r, m1, m2, f, k + 1)

(* internal::helper_analytic_integration with the lambda of routine r      *)
helper_analytic_integration(r, m1, m2) ==
  LET f == findOverlappingIntervals(m1, m2)
  IN IF f.err # NoError THEN [err |-> f.err, val |-> 0]
     ELSE IF f.nintervals = 0 THEN [err |-> NoError, val |-> 0]
     ELSE [err |-> NoError, val |-> helperLoop(r, m1, m2, f, 0)]

(* The inner loop of integrate over the even powers, from index on.        *)
RECURSIVE integrateCoeffs(_, _, _, _, _)
integrateCoeffs(coeffs, order, index, pot, dxhalf_squared) ==
  IF ~(index < order + 1) THEN 0
  ELSE 2 * coeffs[index + 1] * pot * over(index + 1)
         + integrateCoeffs(coeffs, order, index + 2,
                           pot * dxhalf_squared, dxhalf_squared)

(* The outer loop of integrate from interval i (0-based) on.               *)
RECURSIVE integrateLoop(_, _)
integrateLoop(m, i) ==
  IF ~(i + 1 < Len(m.intervals)) THEN 0
  ELSE LET pot == (m.intervals[i + 2] - m.intervals[i + 1]) \div 2
       IN integrateCoeffs(m.coefficients[i + 1], m.order, 0, pot, pot * pot)
            + integrateLoop(m, i + 1)

(* integrate(const myspline<T, order> &m)                                  *)
integrate(m) == integrateLoop(m, 0)

----------------------------------------------------------------------------
(* The splines the operations are applied to: every spline is built, as a  *)
(* caller does, from a contiguous run of points of a grid.                 *)

FullGrid == [i \in 1..(MaxBreak + 1) |-> i - 1]
DropPoint(j) ==
  [i \in 1..MaxBreak |-> IF i - 1 < j THEN i - 1 ELSE i]

SplineGrids == {FullGrid} \cup {DropPoint(j) : j \in 1..(MaxBreak - 1)}

(* Coefficient k of the interval that starts at break point v.             *)
CoefAt(who, v, k) == who + v + k

SplineOn(who, order, g, first, n) ==
  [order |-> order,
   intervals |-> [i \in 1..n |-> g[first + i - 1]],
   coefficients |->
     [i \in 1..(n - 1) |->
        [k \in 1..(order + 1) |-> CoefAt(who, g[first + i - 1], k - 1)]]]

(* <<first, n>>: n >= 2 consecutive points of g starting at point first.   *)
Runs(g) ==
  {run \in (1..Len(g)) \X (2..Len(g)) : run[1] + run[2] - 1 <= Len(g)}

SplinesOn(who, g) ==
  {EmptySpline(order) : order \in 0..MaxOrder}
    \cup {SplineOn(who, order, g, run[1], run[2]) :
            order \in 0..MaxOrder, run \in Runs(g)}

WithinCoef(m) ==
  \A i \in DOMAIN m.coefficients : \A k \in DOMAIN m.coefficients[i] :
    /\ m.coefficients[i][k] <= MaxCoef
    /\ m.coefficients[i][k] >= 0 - MaxCoef

SplineFrame == UNCHANGED <<supportVars, integVars, generatorVars>>

(* routine r of the analytical integrals called with m1 and m2             *)
Analytic(r) ==
  /\ LET a == helper_analytic_integration(r, spl["m1"], spl["m2"])
     IN /\ scall' = [NoCall EXCEPT !.val = a.val]
        /\ sres' = [err |-> a.err, spline |-> EmptySpline(0)]
  /\ sop' = r
  /\ UNCHANGED <<spl, mgrid, nmut>>
  /\ SplineFrame

(* integrate(m1)                                                           *)
Integrate ==
  /\ scall' = [NoCall EXCEPT !.val = integrate(spl["m1"])]
  /\ sres' = SplineReturned(EmptySpline(0))
  /\ sop' = "integrate"
  /\ UNCHANGED <<spl, mgrid, nmut>>
  /\ SplineFrame

(* m1 + m2                                                                 *)
OperatorPlus ==
  /\ sres' = operatorPlus(spl["m1"], spl["m2"])
  /\ sop' = "operator+"
  /\ scall' = NoCall
  /\ UNCHANGED <<spl, mgrid, nmut>>
  /\ SplineFrame

(* m1 - m2                                                                 *)
OperatorMinus ==
  /\ sres' = operatorMinus(spl["m1"], spl["m2"])
  /\ sop' = "operator-"
  /\ scall' = NoCall
  /\ UNCHANGED <<spl, mgrid, nmut>>
  /\ SplineFrame

(* m1 * m2                                                                 *)
OperatorTimes ==
  /\ sres' = operatorTimes(spl["m1"], spl["m2"])
  /\ sop' = "operator*"
  /\ scall' = NoCall
  /\ UNCHANGED <<spl, mgrid, nmut>>
  /\ SplineFrame

(* m1 += m2 : m1 is replaced by the sum unless setData aborts              *)
OperatorPlusAssign ==
  /\ nmut < MaxMut
  /\ spl["m2"].order <= spl["m1"].order
  /\ sres' = operatorPlusAssign(spl["m1"], spl["m2"])
  /\ WithinCoef(sres'.spline)
  /\ spl' = [spl EXCEPT !["m1"] = sres'.spline]
  /\ sop' = "operator+="
  /\ scall' = NoCall
  /\ nmut' = nmut + 1
  /\ UNCHANGED mgrid
  /\ SplineFrame

(* m1 -= m2                                                                *)
OperatorMinusAssign ==
  /\ nmut < MaxMut
  /\ spl["m2"].order <= spl["m1"].order
  /\ sres' = operatorMinusAssign(spl["m1"], spl["m2"])
  /\ WithinCoef(sres'.spline)
  /\ spl' = [spl EXCEPT !["m1"] = sres'.spline]
  /\ sop' = "operator-="
  /\ scall' = NoCall
  /\ nmut' = nmut + 1
  /\ UNCHANGED mgrid
  /\ SplineFrame

(* m1(x)                                                                   *)
Evaluate(x) ==
  /\ scall' = [NoCall EXCEPT !.x = x,
                             !.index = findInterval(spl["m1"].intervals, x),
                             !.val = evaluate(spl["m1"], x)]
  /\ sres' = SplineReturned(EmptySpline(0))
  /\ sop' = "operator()"
  /\ UNCHANGED <<spl, mgrid, nmut>>
  /\ SplineFrame

(* m1.isZero()                                                             *)
IsZero ==
  /\ scall' = [NoCall EXCEPT !.bool = isZero(spl["m1"])]
  /\ sres' = SplineReturned(EmptySpline(0))
  /\ sop' = "isZero"
  /\ UNCHANGED <<spl, mgrid, nmut>>
  /\ SplineFrame

(* m1 * d                                                                  *)
ScalarTimes(d) ==
  /\ sres' = SplineReturned(scalarTimes(spl["m1"], d))
  /\ sop' = "operator*(d)"
  /\ scall' = [NoCall EXCEPT !.x = d]
  /\ UNCHANGED <<spl, mgrid, nmut>>
  /\ SplineFrame

(* m1 / d                                                                  *)
ScalarDivide(d) ==
  /\ sres' = SplineReturned(scalarDivide(spl["m1"], d))
  /\ sop' = "operator/(d)"
  /\ scall' = [NoCall EXCEPT !.x = d]
  /\ UNCHANGED <<spl, mgrid, nmut>>
  /\ SplineFrame

(* m1 *= d                                                                 *)
ScalarTimesAssign(d) ==
  /\ nmut < MaxMut
  /\ sres' = SplineReturned(scalarTimes(spl["m1"], d))
  /\ WithinCoef(sres'.spline)
  /\ spl' = [spl EXCEPT !["m1"] = sres'.spline]
  /\ sop' = "operator*=(d)"
  /\ scall' = [NoCall EXCEPT !.x = d]
  /\ nmut' = nmut + 1
  /\ UNCHANGED mgrid
  /\ SplineFrame

(* m1 /= d                                                                 *)
ScalarDivideAssign(d) ==
  /\ nmut < MaxMut
  /\ sres' = SplineReturned(scalarDivide(spl["m1"], d))
  /\ WithinCoef(sres'.spline)
  /\ spl' = [spl EXCEPT !["m1"] = sres'.spline]
  /\ sop' = "operator/=(d)"
  /\ scall' = [NoCall EXCEPT !.x = d]
  /\ nmut' = nmut + 1
  /\ UNCHANGED mgrid
  /\ SplineFrame

(* m1 = m2 for a spline m2 of lower or equal order                         *)
AssignRaise ==
  /\ nmut < MaxMut
  /\ spl["m2"].order <= spl["m1"].order
  /\ sres' = assignRaise(spl["m1"], spl["m2"])
  /\ spl' = [spl EXCEPT !["m1"] = sres'.spline]
  /\ sop' = "operator="
  /\ scall' = NoCall
  /\ nmut' = nmut + 1
  /\ UNCHANGED mgrid
  /\ SplineFrame

(* m1 = <the spline the last call returned>                                *)
AssignResult ==
  /\ nmut < MaxMut
  /\ sop \notin {"init", "operator()", "isZero", "operator=",
                 "operator+=", "operator-=", "operator*=(d)", "operator/=(d)"}
  /\ sres.err = NoError
  /\ sres.spline.order <= spl["m1"].order
  /\ WithinCoef(sres.spline)
  /\ sres' = assignRaise(spl["m1"], sres.spline)
  /\ spl' = [spl EXCEPT !["m1"] = sres'.spline]
  /\ sop' = "operator="
  /\ scall' = NoCall
  /\ nmut' = nmut + 1
  /\ UNCHANGED mgrid
  /\ SplineFrame

(* m1 + (-1 * m1)                                                          *)
PlusNegated ==
  /\ sres' = operatorPlus(spl["m1"], scalarTimes(spl["m1"], -1))
  /\ sop' = "a + (-1 * a)"
  /\ scall' = NoCall
  /\ UNCHANGED <<spl, mgrid, nmut>>
  /\ SplineFrame

(* m1.restrictSupport(x0, x1)                                              *)
RestrictSupport(x0, x1) ==
  /\ sres' = restrictSupport(spl["m1"], x0, x1)
  /\ sop' = "restrictSupport"
  /\ scall' = [NoCall EXCEPT !.x = x0, !.y = x1]
  /\ UNCHANGED <<spl, mgrid, nmut>>
  /\ SplineFrame

(* m1.timesx()                                                             *)
Timesx ==
  /\ sres' = timesx(spl["m1"])
  /\ sop' = "timesx"
  /\ scall' = NoCall
  /\ UNCHANGED <<spl, mgrid, nmut>>
  /\ SplineFrame

(* m1.invert()                                                             *)
Invert ==
  /\ sres' = invert(spl["m1"])
  /\ sop' = "invert"
  /\ scall' = NoCall
  /\ UNCHANGED <<spl, mgrid, nmut>>
  /\ SplineFrame

(* m1.dx<n>()                                                              *)
Dx(n) ==
  /\ sres' = dx(spl["m1"], n)
  /\ sop' = "dx"
  /\ scall' = [NoCall EXCEPT !.n = n]
  /\ UNCHANGED <<spl, mgrid, nmut>>
  /\ SplineFrame

(* The splines of PositionOperatorTest.  getOne(grid): the spline of order  *)
(* 0 with the coefficient 1 on every interval of the whole grid.           *)
getOne(g) ==
  [order |-> 0, intervals |-> g,
   coefficients |-> [i \in 1..(Len(g) - 1) |-> <<1>>]]

RECURSIVE Factorial(_)
Factorial(n) == IF n = 0 THEN 1 ELSE n * Factorial(n - 1)

(* The factors 1, 0.5 and 1.0 / 6.0 of the test are fractions 1/n!.  The    *)
(* splines of the test are held in units of 1 / PositionUnit, so that the  *)
(* factor 1/n! is the integer PositionUnit / n!.                           *)
PositionUnit == Factorial(MaxPolyOrder)
oneOverFactorial(n) == PositionUnit \div Factorial(n)

(* X<n>{} * one : the position operator applied n times                    *)
RECURSIVE timesxPower(_, _)
timesxPower(m, n) ==
  IF n = 0 THEN SplineReturned(m)
  ELSE LET t == timesx(m)
       IN IF t.err # NoError THEN t ELSE timesxPower(t.spline, n - 1)

(* one, x, halfXSquared and oneSixthXCubed for n = 0, 1, 2, 3              *)
positionSpline(one, n) ==
  LET p == timesxPower(one, n)
  IN IF p.err # NoError THEN p
     ELSE SplineReturned(scalarTimes(p.spline, oneOverFactorial(n)))

(* m1 = ((1/n!) * X<n>{}) * m2, where m2 is the spline one                 *)
PositionTimes(n) ==
  /\ sres' = positionSpline(spl["m2"], n)
  /\ sres'.err = NoError
  /\ spl' = [spl EXCEPT !["m1"] = sres'.spline]
  /\ sop' = "X"
  /\ scall' = [NoCall EXCEPT !.n = n]
  /\ UNCHANGED <<mgrid, nmut>>
  /\ SplineFrame

SplineIdle ==
  /\ spl = [m \in Splines |-> EmptySpline(0)]
  /\ mgrid = [m \in Splines |-> <<>>]
  /\ sop = "init"
  /\ sres = SplineReturned(EmptySpline(0))
  /\ scall = NoCall
  /\ nmut = 0

----------------------------------------------------------------------------
(* Two-spline integration: internal::helperAnalyticIntegration, which all  *)
(* eight analytical routines call with their own per-interval formula, and *)
(* the numerical integrate.  A spline is represented by its support; it    *)
(* has one coefficient array per interval of the support.  What one        *)
(* interval adds to the result is recorded as the triple of indices the    *)
(* loop body reads.                                                        *)

AnalyticRoutines ==
  {"overlap", "integrate_x", "integrate_x2", "integrate_dx", "integrate_x_dx",
   "integrate_dx2", "integrate_x_dx2", "integrate_x2_dx2"}
Routines == AnalyticRoutines \cup {"numerical"}

BadOptionalAccess == "bad_optional_access"

IntegBlank == [err |-> NoError, nintervals |-> 0]

(* Support::intervalIndexFromAbsolute, called by the numerical integrate   *)
intervalIndexFromAbsolute(s, index) == relativeFromAbsolute(s, index)

(* The index lookup of one routine.                                        *)
indexLookup(r, s, index) ==
  IF r = "numerical" THEN intervalIndexFromAbsolute(s, index)
  ELSE relativeFromAbsolute(s, index)

(* The part of a routine before its loop: the error raised, if any, the    *)
(* support of the integrand and the number of intervals to visit.          *)
integEntry(r, m1, m2) ==
  IF r \in AnalyticRoutines /\ ~hasSameGrid(m1, m2)
  THEN [err |-> DifferingGrids, support |-> NoSupport, nintervals |-> 0]
  ELSE LET inter == calcIntersection(m1, m2)
       IN IF inter.err # NoError
          THEN [err |-> inter.err, support |-> NoSupport, nintervals |-> 0]
          ELSE [err |-> NoError, support |-> inter.sup,
                nintervals |-> numberOfIntervals(inter.sup)]

(* One pass of the loop body: the indices it reads, or the error raised.   *)
integInterval(r, m1, m2, integrandSupport, k) ==
  LET absIndex == absoluteFromRelative(integrandSupport, k)
      m1Index == indexLookup(r, m1, absIndex.num)
      m2Index == indexLookup(r, m2, absIndex.num)
  IN IF absIndex.err # NoError
     THEN [err |-> absIndex.err, abs |-> 0, i1 |-> 0, i2 |-> 0]
     ELSE IF ~m1Index.bool \/ ~m2Index.bool
     THEN [err |-> BadOptionalAccess, abs |-> absIndex.num, i1 |-> 0, i2 |-> 0]
     ELSE [err |-> NoError, abs |-> absIndex.num,
           i1 |-> m1Index.num, i2 |-> m2Index.num]

IntegFrame == UNCHANGED <<supportVars, splineVars, generatorVars>>

(* A caller invokes routine r on the splines m1 and m2.                    *)
IntegCall(r) ==
  /\ ipc = "idle"
  /\ routine' = r
  /\ ipc' = "entry"
  /\ visited' = <<>>
  /\ ires' = IntegBlank
  /\ UNCHANGED <<im, isup, interv>>
  /\ IntegFrame

(* The grid check, the intersection and the interval count.                *)
IntegEntry ==
  /\ ipc = "entry"
  /\ LET e == integEntry(routine, im["m1"], im["m2"])
     IN /\ ires' = [err |-> e.err, nintervals |-> e.nintervals]
        /\ isup' = e.support
        /\ ipc' = IF e.err # NoError THEN "thrown"
                  ELSE IF e.nintervals = 0 THEN "returned" ELSE "loop"
  /\ interv' = 0
  /\ UNCHANGED <<im, routine, visited>>
  /\ IntegFrame

(* One iteration of the loop over the intervals of the intersection.       *)
IntegInterval ==
  /\ ipc = "loop"
  /\ interv < ires.nintervals
  /\ LET c == integInterval(routine, im["m1"], im["m2"], isup, interv)
     IN IF c.err # NoError
        THEN /\ ires' = [ires EXCEPT !.err = c.err]
             /\ ipc' = "thrown"
             /\ UNCHANGED <<visited, interv>>
        ELSE /\ visited' = Append(visited, [abs |-> c.abs, i1 |-> c.i1, i2 |-> c.i2])
             /\ interv' = interv + 1
             /\ ipc' = IF interv + 1 < ires.nintervals THEN "loop" ELSE "returned"
             /\ UNCHANGED ires
  /\ UNCHANGED <<im, routine, isup>>
  /\ IntegFrame

(* The routine has returned or thrown; control is back with the caller.    *)
IntegDone ==
  /\ ipc \in {"returned", "thrown"}
  /\ ipc' = "idle"
  /\ visited' = <<>>
  /\ ires' = IntegBlank
  /\ isup' = NoSupport
  /\ interv' = 0
  /\ UNCHANGED <<im, routine>>
  /\ IntegFrame

IntegIdle ==
  /\ im = [m \in Splines |-> NoSupport]
  /\ routine = "none"
  /\ ipc = "idle"
  /\ isup = NoSupport
  /\ interv = 0
  /\ visited = <<>>
  /\ ires = IntegBlank

----------------------------------------------------------------------------
(* class BSplineGenerator.  The knots are values of CalcGrid.  A spline of *)
(* order k - 1 is held in units of 1 / KnotUnit^(k-1): the prefactor       *)
(* static_cast<T>(1) / (difference of two knots) is the integer            *)
(* KnotUnit / difference.                                                  *)

Undetermined == "Undetermined"
InconsistentData == "InconsistentData"
InvalidGrid == "InvalidGrid"
OutOfRange == "out_of_range"

KnotUnit == 4 * Factorial(MaxBreak)

NoGenerator == [made |-> FALSE, knots |-> <<>>, grid |-> <<>>]
GenBlank == [err |-> NoError, splines |-> <<>>, reads |-> {}]
GenNoCall == [knots |-> <<>>, grid |-> <<>>, k |-> 0, i |-> 0]

GenReturned(list, reads) == [err |-> NoError, splines |-> list, reads |-> reads]
GenFailed(e, reads) == [err |-> e, splines |-> <<>>, reads |-> reads]

(* std::unique: of every run of equal neighbours the first is kept         *)
RECURSIVE unique(_)
unique(v) ==
  IF Len(v) <= 1 THEN v
  ELSE IF v[1] = v[2] THEN unique(Tail(v))
  ELSE <<v[1]>> \o unique(Tail(v))

(* Grid<T>(begin, end): a grid of the values, which must be strictly       *)
(* increasing                                                              *)
GridConstruct(values) ==
  IF \A i \in 1..(Len(values) - 1) : values[i] < values[i + 1]
  THEN [err |-> NoError, grid |-> values]
  ELSE [err |-> InvalidGrid, grid |-> <<>>]

(* BSplineGenerator::generateGrid                                          *)
generateGrid(knots) == GridConstruct(unique(knots))

(* Grid::operator== on the values of two grids                             *)
gridEquals(g, h) ==
  Len(g) = Len(h) /\ \A i \in 1..Len(g) : g[i] = h[i]

(* The comparison of the constructor left out.                             *)
inconsistentNever(grid, secondGrid) == FALSE

(* if (_grid != secondGrid)                                                *)
inconsistent(grid, secondGrid) == ~gridEquals(grid, secondGrid)

(* BSplineGenerator(std::vector<T> knots)                                  *)
generatorFromKnots(knots) ==
  LET grid == generateGrid(knots)
  IN IF grid.err # NoError THEN [err |-> grid.err, gen |-> NoGenerator]
     ELSE [err |-> NoError,
           gen |-> [made |-> TRUE, knots |-> knots, grid |-> grid.grid]]

(* BSplineGenerator(std::vector<T> knots, Grid<T> grid)                    *)
generatorFromKnotsAndGrid(knots, grid) ==
  LET secondGrid == generateGrid(knots)
  IN IF secondGrid.err # NoError
     THEN [err |-> secondGrid.err, gen |-> NoGenerator]
     ELSE IF inconsistent(grid, secondGrid.grid)
     THEN [err |-> InconsistentData, gen |-> NoGenerator]
     ELSE [err |-> NoError,
           gen |-> [made |-> TRUE, knots |-> knots, grid |-> grid]]

(* Grid::findElement: the index of the grid point equal to x               *)
findElement(grid, x) == FindIndex(grid, x)

(* The test of the branch k == 1 with > in place of >=.                    *)
degenerateStrict(xi, xip1) == xi > xip1

(* if (xi >= xip1)                                                         *)
degenerate(xi, xip1) == xi >= xip1

(* The branch k == 1 of generateBSpline                                    *)
generateBSplineBase(g, i) ==
  LET n == Len(g.knots)
  IN IF ~(i < n) THEN GenFailed(OutOfRange, {i})
     ELSE IF ~(i + 1 < n) THEN GenFailed(OutOfRange, {i, i + 1})
     ELSE LET xi == g.knots[i + 1]
              xip1 == g.knots[i + 2]
              gridIndex == findElement(g.grid, xi)
          IN IF degenerate(xi, xip1) THEN GenFailed(Undetermined, {i, i + 1})
             ELSE IF ~SupportCtorAssert([size |-> Len(g.grid)],
                                        gridIndex, gridIndex + 2)
             THEN GenFailed(AssertionFailed, {i, i + 1})
             ELSE GenReturned(
                    <<[order |-> 0,
                       intervals |-> <<g.grid[gridIndex + 1],
                                       g.grid[gridIndex + 2]>>,
                       coefficients |-> <<(<<1>>)>>]>>,
                    {i, i + 1})

(* A spline object held in a variable or a temporary: the record with its  *)
(* vectors written out element by element.                                 *)
object(m) ==
  [order |-> m.order,
   intervals |-> SubSeq(m.intervals, 1, Len(m.intervals)),
   coefficients |->
     IF DOMAIN m.coefficients = {} THEN <<>>
     ELSE SubSeq([i \in DOMAIN m.coefficients |->
                    SubSeq(m.coefficients[i], 1, Len(m.coefficients[i]))],
                 1, Len(m.coefficients))]
objectOf(r) == [err |-> r.err, spline |-> object(r.spline)]

(* ret += spline1.timesx() - xi * spline1                                  *)
addFirstTerm(ret, spline1, xi) ==
  LET tx == objectOf(timesx(spline1))
      diff == objectOf(operatorMinus(tx.spline,
                                     object(scalarTimes(spline1, xi))))
  IN IF tx.err # NoError THEN SplineFailed(tx.err)
     ELSE IF diff.err # NoError THEN SplineFailed(diff.err)
     ELSE objectOf(operatorPlusAssign(ret, diff.spline))

(* ret += xipk * spline2 - spline2.timesx()                                *)
addSecondTerm(ret, spline2, xipk) ==
  LET tx == objectOf(timesx(spline2))
      diff == objectOf(operatorMinus(object(scalarTimes(spline2, xipk)),
                                     tx.spline))
  IN IF tx.err # NoError THEN SplineFailed(tx.err)
     ELSE IF diff.err # NoError THEN SplineFailed(diff.err)
     ELSE objectOf(operatorPlusAssign(ret, diff.spline))

(* The test of the first term with >= in place of >.                       *)
includeTermAlways(lo, hi) == hi >= lo

(* if (xipkm1 > xi) and if (xipk > xip1)                                   *)
includeTerm(lo, hi) == hi > lo

(* The prefactor with the lower knot left out of the difference.           *)
prefactorOfUpper(lo, hi) == KnotUnit \div hi

(* static_cast<T>(1) / (hi - lo), in units of 1 / KnotUnit                 *)
prefactor(lo, hi) == KnotUnit \div (hi - lo)

(* BSplineGenerator::generateBSpline<k>(i): the spline returned or the     *)
(* error thrown, and the indices at which _knots.at() was called.          *)
RECURSIVE generateBSpline(_, _, _)
generateBSpline(g, k, i) ==
  IF k = 1 THEN generateBSplineBase(g, i)
  ELSE
    LET n == Len(g.knots)
        ret == EmptySpline(k - 1)
    IN IF ~(i < n) THEN GenFailed(OutOfRange, {i})
       ELSE IF ~(i + k - 1 < n) THEN GenFailed(OutOfRange, {i, i + k - 1})
       ELSE
         LET xi == g.knots[i + 1]
             xipkm1 == g.knots[i + k]
             lower == IF includeTerm(xi, xipkm1)
                      THEN generateBSpline(g, k - 1, i)
                      ELSE GenBlank
             reads1 == {i, i + k - 1} \cup lower.reads
             ret1 == IF includeTerm(xi, xipkm1) /\ lower.err = NoError
                     THEN addFirstTerm(ret,
                            object(scalarTimes(lower.splines[1],
                                               prefactor(xi, xipkm1))),
                            xi)
                     ELSE SplineReturned(ret)
         IN IF lower.err # NoError THEN GenFailed(lower.err, reads1)
            ELSE IF ret1.err # NoError THEN GenFailed(ret1.err, reads1)
            ELSE IF ~(i + k < n)
            THEN GenFailed(OutOfRange, reads1 \cup {i + 1, i + k})
            ELSE
              LET xip1 == g.knots[i + 2]
                  xipk == g.knots[i + k + 1]
                  upper == IF includeTerm(xip1, xipk)
                           THEN generateBSpline(g, k - 1, i + 1)
                           ELSE GenBlank
                  reads2 == reads1 \cup {i + 1, i + k} \cup upper.reads
                  ret2 == IF includeTerm(xip1, xipk) /\ upper.err = NoError
                          THEN addSecondTerm(ret1.spline,
                                 object(scalarTimes(upper.splines[1],
                                                    prefactor(xip1, xipk))),
                                 xipk)
                          ELSE ret1
              IN IF upper.err # NoError THEN GenFailed(upper.err, reads2)
                 ELSE IF ret2.err # NoError THEN GenFailed(ret2.err, reads2)
                 ELSE GenReturned(<<ret2.spline>>, reads2)

(* The loop of generateBSplines with i <= in place of i <.                 *)
loopRunsInclusive(i, count, k) == i <= count - k

(* i < _knots.size() - k                                                   *)
loopRuns(i, count, k) == i < count - k

(* The loop of generateBSplines from index i on.                           *)
RECURSIVE generateLoop(_, _, _, _)
generateLoop(g, k, i, acc) ==
  IF ~loopRuns(i, Len(g.knots), k) THEN acc
  ELSE LET b == generateBSpline(g, k, i)
       IN IF b.err # NoError THEN GenFailed(b.err, acc.reads \cup b.reads)
          ELSE generateLoop(g, k, i + 1,
                 GenReturned(acc.splines \o b.splines, acc.reads \cup b.reads))

(* BSplineGenerator::generateBSplines<k>()                                 *)
generateBSplines(g, k) ==
  IF Len(g.knots) < k THEN GenFailed(Undetermined, {})
  ELSE generateLoop(g, k, 0, GenBlank)

(* A caller constructs a generator from a knots vector.                    *)
NewGenerator(knots) ==
  /\ gop = "init"
  /\ LET c == generatorFromKnots(knots)
     IN /\ bsg' = c.gen
        /\ gres' = [GenBlank EXCEPT !.err = c.err]
  /\ gop' = "BSplineGenerator(knots)"
  /\ gcall' = [GenNoCall EXCEPT !.knots = knots]
  /\ UNCHANGED <<supportVars, splineVars, integVars>>

(* A caller constructs a generator from a knots vector and a grid.         *)
NewGeneratorWithGrid(knots, grid) ==
  /\ gop = "init"
  /\ LET c == generatorFromKnotsAndGrid(knots, grid)
     IN /\ bsg' = c.gen
        /\ gres' = [GenBlank EXCEPT !.err = c.err]
  /\ gop' = "BSplineGenerator(knots, grid)"
  /\ gcall' = [GenNoCall EXCEPT !.knots = knots, !.grid = grid]
  /\ UNCHANGED <<supportVars, splineVars, integVars>>

(* generator.generateBSpline<k>(i)                                         *)
GenerateBSpline(k, i) ==
  /\ bsg.made
  /\ gres' = generateBSpline(bsg, k, i)
  /\ gop' = "generateBSpline"
  /\ gcall' = [GenNoCall EXCEPT !.k = k, !.i = i]
  /\ UNCHANGED <<bsg, supportVars, splineVars, integVars>>

(* generator.generateBSplines<k>()                                         *)
GenerateBSplines(k) ==
  /\ bsg.made
  /\ gres' = generateBSplines(bsg, k)
  /\ gop' = "generateBSplines"
  /\ gcall' = [GenNoCall EXCEPT !.k = k]
  /\ UNCHANGED <<bsg, supportVars, splineVars, integVars>>

GeneratorIdle ==
  /\ bsg = NoGenerator
  /\ gop = "init"
  /\ gcall = GenNoCall
  /\ gres = GenBlank

----------------------------------------------------------------------------
(* Operations on grids.                                                    *)

SupportFrame == UNCHANGED <<splineVars, integVars, generatorVars>>

(* grid(const std::vector<T> &v) -> grid(begin, end) -> generateData       *)
GridFromVector(slot, v) ==
  /\ grids[slot] = NoGrid
  /\ heap' = Append(heap, v)
  /\ grids' = [grids EXCEPT ![slot] = [size |-> Len(v), data |-> Len(heap) + 1]]
  /\ op' = "gridFromVector"
  /\ args' = [NoArgs EXCEPT !.gx = slot]
  /\ res' = Blank
  /\ UNCHANGED sup
  /\ SupportFrame

(* grid(size, data) on the storage of an existing grid                     *)
GridFromData(slot, n, src) ==
  /\ grids[slot] = NoGrid
  /\ grids[src] # NoGrid
  /\ n <= grids[src].size
  /\ grids' = [grids EXCEPT ![slot] = [size |-> n, data |-> grids[src].data]]
  /\ op' = "gridFromData"
  /\ args' = [NoArgs EXCEPT !.gx = slot]
  /\ res' = Blank
  /\ UNCHANGED <<heap, sup>>
  /\ SupportFrame

(* grid(const grid &g)                                                     *)
GridCopy(slot, src) ==
  /\ grids[slot] = NoGrid
  /\ grids[src] # NoGrid
  /\ grids' = [grids EXCEPT ![slot] = grids[src]]
  /\ op' = "gridCopy"
  /\ args' = [NoArgs EXCEPT !.gx = slot]
  /\ res' = Blank
  /\ UNCHANGED <<heap, sup>>
  /\ SupportFrame

(* grid()                                                                  *)
GridDefault(slot) ==
  /\ grids[slot] = NoGrid
  /\ grids' = [grids EXCEPT ![slot] = [size |-> 0, data |-> NullPtr]]
  /\ op' = "gridDefault"
  /\ args' = [NoArgs EXCEPT !.gx = slot]
  /\ res' = Blank
  /\ UNCHANGED <<heap, sup>>
  /\ SupportFrame

(* g == h                                                                  *)
GridEquals(gx, gy) ==
  /\ grids[gx] # NoGrid /\ grids[gy] # NoGrid
  /\ op' = "gridEq"
  /\ args' = [NoArgs EXCEPT !.gx = gx, !.gy = gy]
  /\ res' = [Blank EXCEPT !.bool = GridEq(grids[gx], grids[gy]).eq,
                          !.scanned = GridEq(grids[gx], grids[gy]).scanned]
  /\ UNCHANGED <<heap, grids, sup>>
  /\ SupportFrame

(* hasSameGrid of two supports that hold the vectors of gx and gy          *)
HasSameGridVec(gx, gy) ==
  /\ grids[gx] # NoGrid /\ grids[gy] # NoGrid
  /\ grids[gx].data # NullPtr /\ grids[gy].data # NullPtr
  /\ op' = "hasSameGridVec"
  /\ args' = [NoArgs EXCEPT !.gx = gx, !.gy = gy]
  /\ res' = [Blank EXCEPT
               !.bool = hasSameGridVec(grids[gx].data, grids[gy].data).eq,
               !.scanned = hasSameGridVec(grids[gx].data, grids[gy].data).scanned]
  /\ UNCHANGED <<heap, grids, sup>>
  /\ SupportFrame

----------------------------------------------------------------------------
(* Operations on supports.                                                 *)

Store(r, result) ==
  sup' = IF result.err = NoError THEN [sup EXCEPT ![r] = result.sup] ELSE sup

(* r = support(grid, s, e)                                                 *)
Construct(r, slot, s, e) ==
  /\ grids[slot] # NoGrid
  /\ res' = SupportCtor(grids[slot], s, e)
  /\ Store(r, res')
  /\ op' = "construct"
  /\ args' = [NoArgs EXCEPT !.x = r]
  /\ UNCHANGED <<heap, grids>>
  /\ SupportFrame

(* r = support(grid, constr)                                               *)
ConstructConstr(r, slot, constr) ==
  /\ grids[slot] # NoGrid
  /\ res' = SupportCtorConstr(grids[slot], constr)
  /\ Store(r, res')
  /\ op' = "constructConstr"
  /\ args' = [NoArgs EXCEPT !.x = r]
  /\ UNCHANGED <<heap, grids>>
  /\ SupportFrame

(* x.calcUnion(y)                                                          *)
CalcUnion(x, y) ==
  /\ sup[x] # NoSupport /\ sup[y] # NoSupport
  /\ res' = calcUnion(sup[x], sup[y])
  /\ op' = "calcUnion"
  /\ args' = [NoArgs EXCEPT !.x = x, !.y = y]
  /\ UNCHANGED <<heap, grids, sup>>
  /\ SupportFrame

(* x.calcIntersection(y)                                                   *)
CalcIntersection(x, y) ==
  /\ sup[x] # NoSupport /\ sup[y] # NoSupport
  /\ res' = calcIntersection(sup[x], sup[y])
  /\ op' = "calcIntersection"
  /\ args' = [NoArgs EXCEPT !.x = x, !.y = y]
  /\ UNCHANGED <<heap, grids, sup>>
  /\ SupportFrame

(* r = <the support just returned>  (support &operator=(const support &))  *)
Assign(r) ==
  /\ op \in {"calcUnion", "calcIntersection"}
  /\ res.err = NoError
  /\ sup' = [sup EXCEPT ![r] = res.sup]
  /\ op' = "assign"
  /\ args' = [NoArgs EXCEPT !.x = r]
  /\ res' = Blank
  /\ UNCHANGED <<heap, grids>>
  /\ SupportFrame

(* x == y                                                                  *)
Equals(x, y) ==
  /\ sup[x] # NoSupport /\ sup[y] # NoSupport
  /\ res' = [Blank EXCEPT !.bool = SupportEq(sup[x], sup[y])]
  /\ op' = "equals"
  /\ args' = [NoArgs EXCEPT !.x = x, !.y = y]
  /\ UNCHANGED <<heap, grids, sup>>
  /\ SupportFrame

(* x.relativeFromAbsolute(index)                                           *)
RelativeFromAbsolute(x, index) ==
  /\ sup[x] # NoSupport
  /\ res' = relativeFromAbsolute(sup[x], index)
  /\ op' = "relativeFromAbsolute"
  /\ args' = [NoArgs EXCEPT !.x = x, !.n = index]
  /\ UNCHANGED <<heap, grids, sup>>
  /\ SupportFrame

(* x.absoluteFromRelative(index)                                           *)
AbsoluteFromRelative(x, index) ==
  /\ sup[x] # NoSupport
  /\ res' = absoluteFromRelative(sup[x], index)
  /\ op' = "absoluteFromRelative"
  /\ args' = [NoArgs EXCEPT !.x = x, !.n = index]
  /\ UNCHANGED <<heap, grids, sup>>
  /\ SupportFrame

----------------------------------------------------------------------------
Indices == 0..(MaxGridLen + 1)

SupportIdle ==
  /\ sup = [r \in Regs |-> NoSupport]
  /\ op = "init"
  /\ args = NoArgs
  /\ res = Blank

Init ==
  /\ heap = <<>>
  /\ grids = [slot \in GridSlots |-> NoGrid]
  /\ SupportIdle
  /\ SplineIdle
  /\ IntegIdle
  /\ GeneratorIdle

Next ==
  \/ \E slot \in GridSlots, v \in GridInputs : GridFromVector(slot, v)
  \/ \E slot \in GridSlots, src \in GridSlots, n \in 0..MaxGridLen :
       GridFromData(slot, n, src)
  \/ \E slot \in GridSlots, src \in GridSlots : GridCopy(slot, src)
  \/ \E slot \in GridSlots : GridDefault(slot)
  \/ GridEquals(1, 2)
  \/ HasSameGridVec(1, 2)
  \/ \E r \in Regs, s \in Indices, e \in Indices :
       Construct(r, SlotOf(r), s, e)
  \/ \E r \in Regs, c \in {"EMPTY", "WHOLE_GRID"} :
       ConstructConstr(r, SlotOf(r), c)
  \/ CalcUnion("a", "b")
  \/ CalcIntersection("a", "b")
  \/ \E r \in Regs : Assign(r)
  \/ Equals("a", "b")
  \/ \E i \in Indices : RelativeFromAbsolute("a", i)
  \/ \E i \in Indices : AbsoluteFromRelative("a", i)

Spec == Init /\ [][Next]_vars

----------------------------------------------------------------------------
(* The spline algebra applied to two splines built on grids ga and gb.     *)

InitSpline ==
  /\ heap = <<>>
  /\ grids = [slot \in GridSlots |-> NoGrid]
  /\ SupportIdle
  /\ IntegIdle
  /\ GeneratorIdle
  /\ \E ga \in SplineGrids, gb \in SplineGrids :
       /\ mgrid = [m \in Splines |-> IF m = "m1" THEN ga ELSE gb]
       /\ \E a \in SplinesOn(1, ga), b \in SplinesOn(2, gb) :
            spl = [m \in Splines |-> IF m = "m1" THEN a ELSE b]
  /\ sop = "init"
  /\ sres = SplineReturned(EmptySpline(0))
  /\ scall = NoCall
  /\ nmut = 0

NextSpline ==
  \/ OperatorPlus
  \/ OperatorMinus
  \/ OperatorTimes
  \/ OperatorPlusAssign
  \/ OperatorMinusAssign

SpecSpline == InitSpline /\ [][NextSpline]_vars

----------------------------------------------------------------------------
(* The spline operations applied to two splines of one common grid whose   *)
(* points are multiples of four.                                           *)

CalcGrid == [i \in 1..(MaxBreak + 1) |-> 4 * (i - 1)]

(* The spline of n points from point first of CalcGrid; its coefficient k  *)
(* on the interval that starts at grid point number p is base + p + k,     *)
(* or 0 everywhere when flat.                                              *)
CalcSplineOn(base, flat, order, first, n) ==
  [order |-> order,
   intervals |-> [i \in 1..n |-> CalcGrid[first + i - 1]],
   coefficients |->
     [i \in 1..(n - 1) |->
        [k \in 1..(order + 1) |->
           IF flat THEN 0 ELSE CoefAt(base, first + i - 2, k - 1)]]]

CalcSplines(base, maxorder) ==
  {EmptySpline(order) : order \in 0..maxorder}
    \cup {CalcSplineOn(base, FALSE, order, run[1], run[2]) :
            order \in 0..maxorder, run \in Runs(CalcGrid)}
    \cup {CalcSplineOn(base, TRUE, 0, run[1], run[2]) : run \in Runs(CalcGrid)}

EvalPoints == (0 - 1)..(4 * MaxBreak + 1)
RestrictPoints == {2 * k : k \in 0..(2 * MaxBreak)}
Scalars == {0 - 1, 2}
Units == {0 - 1, 1}

(* Calls with one spline operand.                                          *)
InitUnary ==
  /\ heap = <<>>
  /\ grids = [slot \in GridSlots |-> NoGrid]
  /\ SupportIdle
  /\ IntegIdle
  /\ GeneratorIdle
  /\ mgrid = [m \in Splines |-> CalcGrid]
  /\ \E a \in CalcSplines(1, MaxPolyOrder) :
       spl = [m \in Splines |-> IF m = "m1" THEN a ELSE EmptySpline(0)]
  /\ sop = "init"
  /\ sres = SplineReturned(EmptySpline(0))
  /\ scall = NoCall
  /\ nmut = 0

NextUnary ==
  \/ \E x \in EvalPoints : Evaluate(x)
  \/ IsZero
  \/ \E d \in Scalars : ScalarTimes(d)
  \/ \E d \in Units : ScalarDivide(d)
  \/ \E x0 \in RestrictPoints, x1 \in RestrictPoints : RestrictSupport(x0, x1)
  \/ Timesx
  \/ Invert
  \/ \E n \in 0..(MaxPolyOrder + 1) : Dx(n)

SpecUnary == InitUnary /\ [][NextUnary]_vars

(* Calls with two spline operands.                                         *)
InitBinary ==
  /\ heap = <<>>
  /\ grids = [slot \in GridSlots |-> NoGrid]
  /\ SupportIdle
  /\ IntegIdle
  /\ GeneratorIdle
  /\ mgrid = [m \in Splines |-> CalcGrid]
  /\ \E a \in CalcSplines(1, MaxOrder), b \in CalcSplines(2, MaxOrder) :
       spl = [m \in Splines |-> IF m = "m1" THEN a ELSE b]
  /\ sop = "init"
  /\ sres = SplineReturned(EmptySpline(0))
  /\ scall = NoCall
  /\ nmut = 0

NextBinary ==
  \/ OperatorPlus
  \/ OperatorMinus
  \/ OperatorTimes
  \/ PlusNegated

SpecBinary == InitBinary /\ [][NextBinary]_vars

(* Sequences of operations: m1 is changed in place at most MaxMut times.   *)
InitSeq ==
  /\ heap = <<>>
  /\ grids = [slot \in GridSlots |-> NoGrid]
  /\ SupportIdle
  /\ IntegIdle
  /\ GeneratorIdle
  /\ mgrid = [m \in Splines |-> CalcGrid]
  /\ \E order \in 0..MaxOrder, run \in Runs(CalcGrid) :
       spl = [m \in Splines |->
                IF m = "m1"
                THEN CalcSplineOn(1, FALSE, order, 1, MaxBreak + 1)
                ELSE CalcSplineOn(2, FALSE, 0, run[1], run[2])]
  /\ sop = "init"
  /\ sres = SplineReturned(EmptySpline(0))
  /\ scall = NoCall
  /\ nmut = 0

NextSeq ==
  \/ OperatorPlus
  \/ OperatorMinus
  \/ OperatorTimes
  \/ OperatorPlusAssign
  \/ OperatorMinusAssign
  \/ PlusNegated
  \/ \E d \in Scalars : ScalarTimes(d)
  \/ \E d \in Units : ScalarDivide(d)
  \/ \E d \in Scalars : ScalarTimesAssign(d)
  \/ \E d \in Units : ScalarDivideAssign(d)
  \/ AssignRaise
  \/ AssignResult
  \/ \E x0 \in RestrictPoints : \E x1 \in {x \in RestrictPoints : x > x0} :
       RestrictSupport(x0, x1)
  \/ Timesx
  \/ Invert
  \/ \E n \in 0..(MaxOrder + 1) : Dx(n)

SpecSeq == InitSeq /\ [][NextSeq]_vars

(* Sums of two splines whose break points are runs of one grid that is     *)
(* long enough for two runs to lie two intervals apart.                    *)
GapGrid == [i \in 1..(MaxBreak + 2) |-> 4 * (i - 1)]

GapSplines(who) ==
  {EmptySpline(order) : order \in 0..MaxOrder}
    \cup {SplineOn(who, order, GapGrid, run[1], run[2]) :
            order \in 0..MaxOrder, run \in Runs(GapGrid)}

InitGap ==
  /\ heap = <<>>
  /\ grids = [slot \in GridSlots |-> NoGrid]
  /\ SupportIdle
  /\ IntegIdle
  /\ GeneratorIdle
  /\ mgrid = [m \in Splines |-> GapGrid]
  /\ \E a \in GapSplines(1), b \in GapSplines(2) :
       spl = [m \in Splines |-> IF m = "m1" THEN a ELSE b]
  /\ sop = "init"
  /\ sres = SplineReturned(EmptySpline(0))
  /\ scall = NoCall
  /\ nmut = 0

NextGap ==
  \/ OperatorPlus
  \/ OperatorPlusAssign

SpecGap == InitGap /\ [][NextGap]_vars

(* The analytical integrals of two splines on runs of one grid, whose      *)
(* intervals have the half widths 1 and 2.                                 *)
IntegGrid ==
  [i \in 1..(MaxBreak + 1) |-> IF i <= 2 THEN 2 * i - 6 ELSE 2 * i - 4]

(* Coefficient k of the interval that starts at point number p.            *)
integCoef(who, p, k) == ((who + 2 * p + k) % 5) - 2

IntegSplineOn(who, order, first, n) ==
  [order |-> order,
   intervals |-> [i \in 1..n |-> IntegGrid[first + i - 1]],
   coefficients |->
     [i \in 1..(n - 1) |->
        [k \in 1..(order + 1) |-> integCoef(who, first + i - 1, k - 1)]]]

IntegSplines(who) ==
  {EmptySpline(order) : order \in 0..MaxIntegOrder}
    \cup {IntegSplineOn(who, order, run[1], run[2]) :
            order \in 0..MaxIntegOrder, run \in Runs(IntegGrid)}

InitAnalytic ==
  /\ heap = <<>>
  /\ grids = [slot \in GridSlots |-> NoGrid]
  /\ SupportIdle
  /\ IntegIdle
  /\ GeneratorIdle
  /\ mgrid = [m \in Splines |-> IntegGrid]
  /\ \E a \in IntegSplines(1), b \in IntegSplines(2) :
       spl = [m \in Splines |-> IF m = "m1" THEN a ELSE b]
  /\ sop = "init"
  /\ sres = SplineReturned(EmptySpline(0))
  /\ scall = NoCall
  /\ nmut = 0

NextAnalytic ==
  \/ \E r \in AnalyticRoutines : Analytic(r)
  \/ Integrate

SpecAnalytic == InitAnalytic /\ [][NextAnalytic]_vars

(* PositionOperatorTest: the spline one over a whole grid, the position    *)
(* operator applied to it and the derivatives of what it returned.  The    *)
(* grids are the leading points of CalcGrid, moved to the left by none,    *)
(* one or two intervals.                                                   *)
PositionGrids ==
  {[i \in 1..n |-> CalcGrid[i] - 4 * off] :
     n \in 2..(MaxBreak + 1), off \in 0..2}

InitPosition ==
  /\ heap = <<>>
  /\ grids = [slot \in GridSlots |-> NoGrid]
  /\ SupportIdle
  /\ IntegIdle
  /\ GeneratorIdle
  /\ \E g \in PositionGrids :
       /\ mgrid = [m \in Splines |-> g]
       /\ spl = [m \in Splines |-> getOne(g)]
  /\ sop = "init"
  /\ sres = SplineReturned(EmptySpline(0))
  /\ scall = NoCall
  /\ nmut = 0

NextPosition ==
  \/ \E n \in 0..MaxPolyOrder : PositionTimes(n)
  \/ \E n \in 1..MaxPolyOrder : Dx(n)

SpecPosition == InitPosition /\ [][NextPosition]_vars

(* The BSplineGenerator: knots vectors of every order of their values, the *)
(* grid handed to the second constructor being the grid of the knots, the  *)
(* knots themselves or their sorted distinct values.                       *)
KnotValues == {CalcGrid[i] : i \in DOMAIN CalcGrid}
SeqsOver(S, n) == UNION {[1..m -> S] : m \in 0..n}
NonDecreasing(v) == \A i \in 1..(Len(v) - 1) : v[i] <= v[i + 1]

KnotInputs == SeqsOver(KnotValues, MaxShortKnots)
GridArgs(knots) ==
  {g \in {unique(knots), makeuniquesorted(knots), SubSeq(CalcGrid, 1, 2)} :
     GridConstruct(g).err = NoError}

NextGenerator ==
  \/ \E knots \in KnotInputs : NewGenerator(knots)
  \/ \E knots \in KnotInputs : \E grid \in GridArgs(knots) :
       NewGeneratorWithGrid(knots, grid)
  \/ \E k \in 1..MaxK, i \in 0..MaxShortKnots : GenerateBSpline(k, i)
  \/ \E k \in 1..MaxK : GenerateBSplines(k)

SpecGenerator == Init /\ [][NextGenerator]_vars

(* The generator on non-decreasing knots vectors, long enough to have      *)
(* interior knots for every k.                                             *)
SortedKnotInputs == {v \in SeqsOver(KnotValues, MaxKnots) : NonDecreasing(v)}

NextBSplines ==
  \/ \E knots \in SortedKnotInputs : NewGenerator(knots)
  \/ \E k \in 1..MaxK, i \in 0..MaxKnots : GenerateBSpline(k, i)
  \/ \E k \in 1..MaxK : GenerateBSplines(k)

SpecBSplines == Init /\ [][NextBSplines]_vars

----------------------------------------------------------------------------
(* The integration routines applied to two splines whose supports lie on   *)
(* the grids of slot 1 and slot 2; slot 2 holds a grid of its own or a     *)
(* copy of the grid of slot 1.                                             *)

SupportsOn(g) ==
  {x \in [grid : {g}, start : 0..g.size, end : 0..g.size] : x.start <= x.end}

InitInteg ==
  /\ \E v \in GridInputs, shared \in BOOLEAN :
       /\ shared => v = <<>>
       /\ heap = <<Ramp(MaxGridLen, 0), v>>
       /\ grids = [slot \in GridSlots |->
                     IF slot = 1 \/ shared
                     THEN [size |-> MaxGridLen, data |-> 1]
                     ELSE [size |-> Len(v), data |-> 2]]
  /\ \E a \in SupportsOn(grids[1]), b \in SupportsOn(grids[2]) :
       im = [m \in Splines |-> IF m = "m1" THEN a ELSE b]
  /\ routine = "none"
  /\ ipc = "idle"
  /\ isup = NoSupport
  /\ interv = 0
  /\ visited = <<>>
  /\ ires = IntegBlank
  /\ SupportIdle
  /\ SplineIdle
  /\ GeneratorIdle

NextInteg ==
  \/ \E r \in Routines : IntegCall(r)
  \/ IntegEntry
  \/ IntegInterval
  \/ IntegDone

SpecInteg == InitInteg /\ [][NextInteg]_vars

----------------------------------------------------------------------------
(* Vocabulary of the properties.                                           *)

Contents(g) == IF g.size = 0 THEN <<>> ELSE SubSeq(heap[g.data], 1, g.size)

(* Two grids are logically equal: same length, equal values at every index *)
SameLogicalGrid(g, h) ==
  /\ g.size = h.size
  /\ \A i \in 1..g.size : heap[g.data][i] = heap[h.data][i]

StrictlyIncreasing(v) == \A i \in 1..(Len(v) - 1) : v[i] < v[i + 1]

ValidRange(s) == 0 <= s.start /\ s.start <= s.end /\ s.end <= s.grid.size

(* Grid interval k, between grid points k and k+1, lies in the support.    *)
IntervalIn(s, k) == s.start <= k /\ k + 1 < s.end

LeastOf(S) == CHOOSE m \in S : \A n \in S : m <= n
GreatestOf(S) == CHOOSE m \in S : \A n \in S : m >= n

(* iv is a run of two or more consecutive points of the grid g.            *)
IsRunOf(iv, g) ==
  \E run \in Runs(g) :
    iv = [i \in 1..run[2] |-> g[run[1] + i - 1]]

A == sup["a"]
B == sup["b"]

----------------------------------------------------------------------------
(* C1: every support held by the program or returned by a call has         *)
(* 0 <= start <= end <= grid.length.                                       *)
C1_SupportRange ==
  /\ \A r \in Regs : sup[r] # NoSupport => ValidRange(sup[r])
  /\ res.sup # NoSupport => ValidRange(res.sup)

(* A union of two non-empty supports was computed and stored.              *)
C1_Witness ==
  /\ op = "assign"
  /\ ~empty(A) /\ ~empty(B)
  /\ A.start # B.start /\ A.end # B.end

(* C2: calcUnion of two supports on one logical grid returns b when a is   *)
(* empty, a when b is empty, an empty support when both are, and otherwise *)
(* the range from the smaller start to the larger end on that grid.        *)
C2_UnionResult ==
  (op = "calcUnion" /\ SameLogicalGrid(A.grid, B.grid)) =>
    /\ res.err = NoError
    /\ (empty(A) /\ empty(B) => empty(res.sup))
    /\ (empty(A) /\ ~empty(B) => res.sup = B)
    /\ (~empty(A) /\ empty(B) => res.sup = A)
    /\ (~empty(A) /\ ~empty(B) =>
          /\ res.sup.grid = A.grid
          /\ res.sup.start = LeastOf({A.start, B.start})
          /\ res.sup.end = GreatestOf({A.end, B.end})
          /\ \A k \in 0..A.grid.size :
               (LeastOf({A.start, B.start}) <= k
                  /\ k < GreatestOf({A.end, B.end}))
                 => relativeFromAbsolute(res.sup, k).bool)

(* The union of two non-empty supports separated by a gap.                 *)
C2_Witness ==
  /\ op = "calcUnion" /\ res.err = NoError
  /\ ~empty(A) /\ ~empty(B)
  /\ A.end < B.start
  /\ res.sup.start = A.start /\ res.sup.end = B.end

(* C3: calcIntersection of two supports on one logical grid returns the    *)
(* empty support when the index ranges do not overlap and otherwise the    *)
(* range from the larger start to the smaller end; its number of intervals *)
(* is the number of grid intervals contained in both supports.             *)
C3_IntersectionResult ==
  (op = "calcIntersection" /\ SameLogicalGrid(A.grid, B.grid)) =>
    LET lo == GreatestOf({A.start, B.start})
        hi == LeastOf({A.end, B.end})
    IN /\ res.err = NoError
       /\ (lo >= hi => empty(res.sup))
       /\ (lo < hi => /\ res.sup.grid = A.grid
                      /\ res.sup.start = lo
                      /\ res.sup.end = hi)
       /\ numberOfIntervals(res.sup) =
            Cardinality({k \in 0..A.grid.size :
                           IntervalIn(A, k) /\ IntervalIn(B, k)})

(* Two different supports that share at least one grid interval, the      *)
(* result being a proper part of the first.                                *)
C3_Witness ==
  /\ op = "calcIntersection" /\ res.err = NoError
  /\ A.start < B.start
  /\ numberOfIntervals(res.sup) >= 1
  /\ res.sup # A

(* C4 as stated: two supports compare equal exactly when their grids are   *)
(* logically equal and the indices identical, or when both are empty       *)
(* whatever their grids.                                                   *)
C4_EqualAsStated ==
  op = "equals" =>
    (res.bool <=>
       \/ (SameLogicalGrid(A.grid, B.grid)
             /\ A.start = B.start /\ A.end = B.end)
       \/ (empty(A) /\ empty(B)))

(* C4 amended: two supports compare equal exactly when their grids are     *)
(* logically equal and either the indices are identical or both supports   *)
(* are empty.                                                              *)
C4_EqualSameGrid ==
  op = "equals" =>
    (res.bool <=>
       /\ SameLogicalGrid(A.grid, B.grid)
       /\ \/ (A.start = B.start /\ A.end = B.end)
          \/ (empty(A) /\ empty(B)))

(* Two empty supports at different indices of logically equal grids held   *)
(* in distinct allocations compare equal.                                  *)
C4_Witness ==
  /\ op = "equals" /\ res.bool
  /\ empty(A) /\ empty(B) /\ A.start # B.start
  /\ A.grid.data # B.grid.data

(* C5: calcUnion and calcIntersection on supports whose grids are not      *)
(* logically equal fail with DifferingGrids and return no support.         *)
C5_DifferingGridsRejected ==
  (op \in {"calcUnion", "calcIntersection"}
     /\ ~SameLogicalGrid(A.grid, B.grid)) =>
    (res.err = DifferingGrids /\ res.sup = NoSupport)

(* A union was requested for overlapping index ranges of two grids of the  *)
(* same length and different values.                                       *)
C5_Witness ==
  /\ op = "calcUnion"
  /\ A.grid.size = B.grid.size
  /\ ~SameLogicalGrid(A.grid, B.grid)
  /\ ~empty(A) /\ ~empty(B)
  /\ res.err = DifferingGrids

(* C6: grid equality is true exactly when the grids have the same length   *)
(* and equal values at every index; grids sharing storage compare equal    *)
(* without any element comparison.                                         *)
C6_GridEquality ==
  /\ op = "gridEq" =>
       /\ res.bool <=> SameLogicalGrid(grids[1], grids[2])
       /\ (grids[1].data = grids[2].data /\ grids[1].size = grids[2].size)
            => (res.bool /\ res.scanned = 0)
  /\ op = "hasSameGridVec" =>
       /\ res.bool <=> heap[grids[1].data] = heap[grids[2].data]
       /\ grids[1].data = grids[2].data => (res.bool /\ res.scanned = 0)

(* Two non-empty grids in distinct allocations with identical content were *)
(* compared and found equal after a full scan.                             *)
C6_Witness ==
  /\ op = "gridEq" /\ res.bool
  /\ grids[1].data # grids[2].data
  /\ grids[1].size > 1
  /\ res.scanned = grids[1].size

(* C7: every grid that exists has strictly increasing values, because      *)
(* construction from any other sequence fails.                             *)
C7_GridStrictlyIncreasing ==
  \A slot \in GridSlots :
    grids[slot] # NoGrid => StrictlyIncreasing(Contents(grids[slot]))

C9_SplinesOfDifferingGridsRejected ==
  [][(/\ mgrid["m1"] # mgrid["m2"]
      /\ IsRunOf(spl["m1"].intervals, mgrid["m1"])
      /\ IsRunOf(spl["m2"].intervals, mgrid["m2"])
      /\ sop' \in {"operator+", "operator+=", "operator-", "operator*"})
       => (sres'.err = DifferingGrids /\ sres'.spline = EmptySpline(0))]_vars

(* C10: a two-spline integration routine called on splines whose grids are *)
(* not logically equal throws DifferingGrids, and no interval has          *)
(* contributed to the result when it does.                                 *)
C10_IntegrationRejectsDifferingGrids ==
  ~SameLogicalGrid(im["m1"].grid, im["m2"].grid) =>
    /\ ipc \in {"idle", "entry", "thrown"}
    /\ visited = <<>>
    /\ ipc = "thrown" => ires.err = DifferingGrids

(* The numerical routine has thrown on two splines whose supports cover    *)
(* the same index range of two grids of equal length.                      *)
C10_Witness ==
  /\ ipc = "thrown" /\ routine = "numerical"
  /\ ires.err = DifferingGrids
  /\ im["m1"].grid.size = im["m2"].grid.size
  /\ numberOfIntervals(im["m1"]) >= 1
  /\ im["m1"].start = im["m2"].start /\ im["m1"].end = im["m2"].end

(* Vocabulary of the claims about splines.                                 *)
M1 == spl["m1"]
M2 == spl["m2"]
R == sres.spline

RECURSIVE Pow(_, _)
Pow(b, e) == IF e = 0 THEN 1 ELSE b * Pow(b, e - 1)

(* The sum over k in lo..hi of c[k + 1] * d^k                              *)
RECURSIVE SumPowers(_, _, _, _)
SumPowers(c, d, lo, hi) ==
  IF lo > hi THEN 0 ELSE c[lo + 1] * Pow(d, lo) + SumPowers(c, d, lo + 1, hi)

(* The value of the polynomial of interval i (0-based) of m at x.          *)
PolyAt(m, i, x) ==
  SumPowers(m.coefficients[i + 1],
            x - (m.intervals[i + 1] + m.intervals[i + 2]) \div 2,
            0, Len(m.coefficients[i + 1]) - 1)

(* C11: evaluating a spline at x returns 0 when the spline has no          *)
(* intervals or x lies before its first or after its last break point;     *)
(* otherwise the search ends at an interval i with break[i] <= x <=        *)
(* break[i+1] and the value is the sum of c_i[k] * (x - midpoint_i)^k.     *)
C11_Evaluate ==
  sop = "operator()" =>
    LET iv == M1.intervals
        x == scall.x
        i == scall.index
    IN IF Len(iv) = 0 \/ x < iv[1] \/ x > iv[Len(iv)]
       THEN scall.val = 0
       ELSE /\ i \in 0..(Len(iv) - 2)
            /\ iv[i + 1] <= x /\ x <= iv[i + 2]
            /\ scall.val = PolyAt(M1, i, x)

(* A spline of order two or more has been evaluated off the midpoint of    *)
(* an interval other than its first one, with a value other than zero.     *)
C11_Witness ==
  /\ sop = "operator()"
  /\ M1.order >= 2
  /\ scall.index >= 1
  /\ scall.x - midpoint(M1.intervals, scall.index) \notin {0 - 1, 0, 1}
  /\ scall.val # 0
  /\ scall.val # M1.coefficients[scall.index + 1][1]

(* C12: when x equals an interior break point, evaluation selects the      *)
(* interval that starts at x, and never the interval that ends at x.       *)
C12_LeftClosedIntervals ==
  sop = "operator()" =>
    \A j \in 2..(Len(M1.intervals) - 1) :
      scall.x = M1.intervals[j] =>
        /\ M1.intervals[scall.index + 1] = scall.x
        /\ M1.intervals[scall.index + 2] # scall.x
        /\ scall.val = PolyAt(M1, j - 1, scall.x)

(* The break points of m as a set.                                         *)
Points(m) == {m.intervals[i] : i \in DOMAIN m.intervals}

(* m has an interval that contains [lo, hi].                               *)
Covers(m, lo, hi) ==
  \E j \in DOMAIN m.coefficients :
    m.intervals[j] <= lo /\ hi <= m.intervals[j + 1]

(* Entry k (0-based) of the coefficient vector of m on [lo, hi], padded    *)
(* with zeros, and 0 when m does not cover [lo, hi].                       *)
Contribution(m, lo, hi, k) ==
  IF Covers(m, lo, hi) /\ k <= m.order
  THEN LET j == CHOOSE j \in DOMAIN m.coefficients :
                  m.intervals[j] <= lo /\ hi <= m.intervals[j + 1]
       IN m.coefficients[j][k + 1]
  ELSE 0

(* C13: the sum of two splines of one grid has order max(orderA, orderB),  *)
(* the sorted union without duplicates of the two break point lists, and   *)
(* on each resulting interval the element-wise sum of the zero-padded      *)
(* coefficient vectors of the operands that cover it (all zeros if none).  *)
C13_AddResult ==
  sop = "operator+" =>
    /\ sres.err = NoError
    /\ R.order = Max2(M1.order, M2.order)
    /\ Points(R) = Points(M1) \cup Points(M2)
    /\ Len(R.intervals) = Cardinality(Points(M1) \cup Points(M2))
    /\ \A i \in 1..(Len(R.intervals) - 1) : R.intervals[i] < R.intervals[i + 1]
    /\ Len(R.coefficients) = Max2(Len(R.intervals) - 1, 0)
    /\ \A i \in DOMAIN R.coefficients :
         /\ Len(R.coefficients[i]) = R.order + 1
         /\ \A k \in 0..R.order :
              R.coefficients[i][k + 1] =
                Contribution(M1, R.intervals[i], R.intervals[i + 1], k)
                  + Contribution(M2, R.intervals[i], R.intervals[i + 1], k)

(* Two splines of different order whose supports overlap in part have been *)
(* added: one interval is covered by the first only, one by both, one by   *)
(* the second only.                                                        *)
C13_Witness ==
  /\ sop = "operator+" /\ sres.err = NoError
  /\ M1.order < M2.order
  /\ ~isZero(M1) /\ ~isZero(M2)
  /\ Len(R.coefficients) = 3
  /\ Covers(M1, R.intervals[1], R.intervals[2])
  /\ ~Covers(M2, R.intervals[1], R.intervals[2])
  /\ Covers(M1, R.intervals[2], R.intervals[3])
  /\ Covers(M2, R.intervals[2], R.intervals[3])
  /\ ~Covers(M1, R.intervals[3], R.intervals[4])
  /\ Covers(M2, R.intervals[3], R.intervals[4])

IntervalsOf(m) ==
  {<<m.intervals[j], m.intervals[j + 1]>> : j \in DOMAIN m.coefficients}

(* The coefficient vector of m on the interval iv of m.                    *)
VectorOn(m, iv) ==
  m.coefficients[CHOOSE j \in DOMAIN m.coefficients :
                   <<m.intervals[j], m.intervals[j + 1]>> = iv]

(* The sum over j from j0 on of ca[j] * cb[m - j], indices 0-based.        *)
RECURSIVE ConvSum(_, _, _, _)
ConvSum(ca, cb, m, j0) ==
  IF j0 > Len(ca) - 1 THEN 0
  ELSE (IF m - j0 >= 0 /\ m - j0 <= Len(cb) - 1
        THEN ca[j0 + 1] * cb[m - j0 + 1] ELSE 0) + ConvSum(ca, cb, m, j0 + 1)

(* C15: the product of two splines of one grid, of orders p and q, has     *)
(* exactly the intervals common to both, on each of them p+q+1             *)
(* coefficients c[m] = sum over j+k = m of a[j]*b[k] of the operands'      *)
(* vectors on that interval, and is zero whenever an operand is zero or    *)
(* no interval is shared.                                                  *)
C15_MultiplyResult ==
  sop = "operator*" =>
    /\ sres.err = NoError
    /\ R.order = M1.order + M2.order
    /\ IntervalsOf(R) = IntervalsOf(M1) \cap IntervalsOf(M2)
    /\ Len(R.coefficients) = Cardinality(IntervalsOf(M1) \cap IntervalsOf(M2))
    /\ \A i \in 1..(Len(R.intervals) - 1) : R.intervals[i] < R.intervals[i + 1]
    /\ \A i \in DOMAIN R.coefficients :
         LET iv == <<R.intervals[i], R.intervals[i + 1]>>
         IN /\ Len(R.coefficients[i]) = M1.order + M2.order + 1
            /\ \A m \in 0..(M1.order + M2.order) :
                 R.coefficients[i][m + 1] =
                   ConvSum(VectorOn(M1, iv), VectorOn(M2, iv), m, 0)
    /\ (isZero(M1) \/ isZero(M2)
          \/ IntervalsOf(M1) \cap IntervalsOf(M2) = {}) => isZero(R)

(* Two splines of order one or more that are not zero and whose supports   *)
(* overlap in part have been multiplied.                                   *)
C15_Witness ==
  /\ sop = "operator*" /\ sres.err = NoError
  /\ M1.order >= 1 /\ M2.order >= 1
  /\ ~isZero(M1) /\ ~isZero(M2) /\ ~isZero(R)
  /\ M1.intervals[1] < M2.intervals[1]
  /\ M1.intervals[Len(M1.intervals)] < M2.intervals[Len(M2.intervals)]
  /\ Len(R.coefficients) >= 1
  /\ Len(R.coefficients) < Len(M1.coefficients)

(* i * (i - 1) * ... * (i - n + 1)                                         *)
RECURSIVE FallingFactorial(_, _)
FallingFactorial(i, n) ==
  IF n = 0 THEN 1 ELSE i * FallingFactorial(i - 1, n - 1)

(* C16: dx<n>() of a spline of order p returns the spline without          *)
(* intervals of order 0 when n > p; otherwise a spline of order p - n      *)
(* with the same break points and, on every interval,                      *)
(* c'[i-n] = i*(i-1)*...*(i-n+1) * c[i] for n <= i <= p.                   *)
C16_Derivative ==
  sop = "dx" =>
    IF scall.n > M1.order
    THEN sres.err = NoError /\ R = EmptySpline(0)
    ELSE /\ sres.err = NoError
         /\ R.order = M1.order - scall.n
         /\ R.intervals = M1.intervals
         /\ Len(R.coefficients) = Len(M1.coefficients)
         /\ \A ii \in DOMAIN R.coefficients :
              /\ Len(R.coefficients[ii]) = M1.order - scall.n + 1
              /\ \A i \in scall.n..M1.order :
                   R.coefficients[ii][i - scall.n + 1] =
                     FallingFactorial(i, scall.n) * M1.coefficients[ii][i + 1]

(* The second derivative of a spline of order three that is not zero.      *)
C16_Witness ==
  /\ sop = "dx"
  /\ scall.n = 2
  /\ M1.order = 3
  /\ Len(M1.coefficients) >= 2
  /\ ~isZero(R)
  /\ R.coefficients[2][2] = 6 * M1.coefficients[2][4]

(* x lies strictly inside an interval of m.                                *)
StrictlyInside(m, x) ==
  \E j \in DOMAIN m.coefficients : m.intervals[j] < x /\ x < m.intervals[j + 1]

(* C17: timesx() keeps the break points, raises the order by one and, on   *)
(* an interval with midpoint xm, gives c'[0] = xm*c[0],                    *)
(* c'[j] = c[j-1] + xm*c[j] for 1 <= j <= order and c'[order+1] =          *)
(* c[order]; the result evaluates to x*f(x) at every x strictly inside an  *)
(* interval of the support.                                                *)
C17_TimesX ==
  sop = "timesx" =>
    /\ sres.err = NoError
    /\ R.intervals = M1.intervals
    /\ R.order = M1.order + 1
    /\ Len(R.coefficients) = Len(M1.coefficients)
    /\ \A i \in DOMAIN R.coefficients :
         LET xm == (M1.intervals[i] + M1.intervals[i + 1]) \div 2
             c == M1.coefficients[i]
             cn == R.coefficients[i]
         IN /\ Len(cn) = M1.order + 2
            /\ cn[1] = xm * c[1]
            /\ \A j \in 1..M1.order : cn[j + 1] = c[j] + xm * c[j + 1]
            /\ cn[M1.order + 2] = c[M1.order + 1]
    /\ \A x \in EvalPoints :
         StrictlyInside(M1, x) => evaluate(R, x) = x * evaluate(M1, x)

(* timesx() of a spline of order two or more, with two or more intervals,  *)
(* that is not zero.                                                       *)
C17_Witness ==
  /\ sop = "timesx" /\ sres.err = NoError
  /\ M1.order >= 2
  /\ Len(M1.coefficients) >= 2
  /\ ~isZero(M1)
  /\ R.coefficients[2][2] # M1.coefficients[2][1]
  /\ \E x \in EvalPoints :
       StrictlyInside(M1, x) /\ x # 0 /\ evaluate(R, x) # evaluate(M1, x)

(* The intervals of m that lie inside [x0, x1], by their number.           *)
Kept(m, x0, x1) ==
  {j \in DOMAIN m.coefficients : m.intervals[j] >= x0 /\ m.intervals[j + 1] <= x1}

(* C18: restrictSupport(x0, x1) returns exactly the intervals              *)
(* [b_i, b_i+1] of the spline with b_i >= x0 and b_i+1 <= x1, in their     *)
(* order and with their coefficient vectors; the result has one more break *)
(* point than intervals, or is empty; an interval only partly inside       *)
(* [x0, x1] is neither kept nor clipped.                                   *)
C18_RestrictSupport ==
  sop = "restrictSupport" =>
    LET K == Kept(M1, scall.x, scall.y)
    IN /\ sres.err = NoError
       /\ R.order = M1.order
       /\ IntervalsOf(R) =
            {<<M1.intervals[j], M1.intervals[j + 1]>> : j \in K}
       /\ Len(R.coefficients) = Cardinality(K)
       /\ Len(R.intervals) = IF K = {} THEN 0 ELSE Cardinality(K) + 1
       /\ \A i \in 1..(Len(R.intervals) - 1) : R.intervals[i] < R.intervals[i + 1]
       /\ \A i \in DOMAIN R.coefficients :
            R.coefficients[i] =
              VectorOn(M1, <<R.intervals[i], R.intervals[i + 1]>>)

(* A spline of three or more intervals has been restricted to a range      *)
(* that starts inside its first interval and ends inside its last one.     *)
C18_Witness ==
  /\ sop = "restrictSupport" /\ sres.err = NoError
  /\ Len(M1.coefficients) >= 3
  /\ ~isZero(M1)
  /\ M1.intervals[1] < scall.x /\ scall.x < M1.intervals[2]
  /\ M1.intervals[Len(M1.intervals) - 1] < scall.y
  /\ scall.y < M1.intervals[Len(M1.intervals)]
  /\ Len(R.coefficients) = Len(M1.coefficients) - 2
  /\ R.intervals[1] = M1.intervals[2]

(* r is s mirrored about 0: the negated break points in reversed order,    *)
(* and on the interval mirrored from interval i coefficient j of s times   *)
(* (-1)^j.                                                                 *)
Mirrored(r, s) ==
  /\ r.order = s.order
  /\ Len(r.intervals) = Len(s.intervals)
  /\ \A i \in DOMAIN r.intervals :
       r.intervals[i] = 0 - s.intervals[Len(s.intervals) + 1 - i]
  /\ Len(r.coefficients) = Len(s.coefficients)
  /\ \A i \in DOMAIN s.coefficients :
       LET mi == Len(s.coefficients) + 1 - i
       IN /\ Len(r.coefficients[mi]) = Len(s.coefficients[i])
          /\ \A j \in 0..s.order :
               r.coefficients[mi][j + 1] = Pow(0 - 1, j) * s.coefficients[i][j + 1]

(* C19: for every spline s, invert(s) has the negated break points of s in *)
(* reversed order and, on the interval mirrored from interval i,           *)
(* coefficient j equal to (-1)^j times coefficient j of s on interval i.   *)
C19_InvertEverySpline ==
  sop = "invert" => (sres.err = NoError /\ Mirrored(R, M1))

(* C19 as the code has it: invert(s) is s mirrored for every spline s that *)
(* is not zero, and s itself, break points not negated, when s is zero.    *)
C19_InvertUnlessZero ==
  sop = "invert" =>
    /\ sres.err = NoError
    /\ IF isZero(M1) THEN R = M1 ELSE Mirrored(R, M1)

(* A spline of order one or more with two or more intervals, not zero, has *)
(* been inverted.                                                          *)
C19_Witness ==
  /\ sop = "invert" /\ sres.err = NoError
  /\ ~isZero(M1)
  /\ M1.order >= 1
  /\ Len(M1.coefficients) >= 2
  /\ R.intervals[1] = 0 - M1.intervals[Len(M1.intervals)]
  /\ R.coefficients[1][2] = 0 - M1.coefficients[Len(M1.coefficients)][2]

(* m has no break points and no coefficient vectors, or two or more        *)
(* strictly increasing break points and one coefficient vector per         *)
(* interval.                                                               *)
WellFormed(m) ==
  \/ Len(m.intervals) = 0 /\ Len(m.coefficients) = 0
  \/ /\ Len(m.intervals) >= 2
     /\ \A i \in 1..(Len(m.intervals) - 1) : m.intervals[i] < m.intervals[i + 1]
     /\ Len(m.coefficients) = Len(m.intervals) - 1

(* C20: after any sequence of spline operations applied to splines of one  *)
(* common grid, every spline has no break points and no coefficient        *)
(* vectors, or two or more strictly increasing break points and exactly    *)
(* one coefficient vector per interval.                                    *)
C20_SplineWellFormed ==
  /\ WellFormed(M1)
  /\ WellFormed(M2)
  /\ sres.err = NoError => WellFormed(R)

(* A spline changed in place to its mirror image has been added to a       *)
(* spline of the original grid.                                            *)
C20_Witness ==
  /\ nmut >= 1
  /\ sop = "operator+" /\ sres.err = NoError
  /\ Len(M1.intervals) >= 2
  /\ M1.intervals[1] < 0
  /\ Len(M2.intervals) >= 2
  /\ Len(R.intervals) > Len(M1.intervals)
  /\ ~isZero(R)

----------------------------------------------------------------------------
(* The expansion of x^p about the point xm: the coefficient of (x - xm)^j. *)
Binomial(n, k) == Factorial(n) \div (Factorial(k) * Factorial(n - k))
MonomialCoef(p, xm, j) == Binomial(p, j) * Pow(xm, p - j)

(* C21: for the constant-one spline u over a whole grid and 1 <= m <= n,   *)
(* the m-th derivative of (1/n!) x^n u is the spline (1/(n-m)!) x^(n-m) u: *)
(* it has the break points of u, the order n - m and on every interval the *)
(* coefficients of that monomial about the interval's midpoint; it is the  *)
(* spline the position operator builds for n - m, and it is u for m = n.   *)
(* All values are in units of 1 / PositionUnit.                            *)
C21_PositionDerivative ==
  (sop = "dx" /\ M1.order >= 1 /\ scall.n >= 1 /\ scall.n <= M1.order) =>
    LET p == M1.order - scall.n
    IN /\ sres.err = NoError
       /\ R.order = p
       /\ R.intervals = M2.intervals
       /\ Len(R.coefficients) = Len(M2.coefficients)
       /\ \A i \in DOMAIN R.coefficients :
            /\ Len(R.coefficients[i]) = p + 1
            /\ \A j \in 0..p :
                 R.coefficients[i][j + 1] =
                   (PositionUnit \div Factorial(p))
                     * MonomialCoef(p, (M2.intervals[i] + M2.intervals[i + 1]) \div 2, j)
       /\ R = positionSpline(M2, p).spline
       /\ (p = 0 => R = scalarTimes(M2, PositionUnit))

C21_Witness ==
  /\ sop = "dx"
  /\ M1.order = 3
  /\ scall.n = 2
  /\ sres.err = NoError
  /\ Len(R.coefficients) >= 2
  /\ R.coefficients[1][1] # 0
  /\ M1 = positionSpline(M2, 3).spline

----------------------------------------------------------------------------
(* Vocabulary of the properties of the generator.                          *)

(* knot[i] for the 0-based index i of the code                             *)
Knot(i) == bsg.knots[i + 1]
KnotCount == Len(bsg.knots)

(* The spline a call of generateBSpline returned.                          *)
GR == gres.splines[1]

(* The indicator of the grid interval from knot[i] to knot[i+1].           *)
Indicator(i) ==
  [order |-> 0, intervals |-> <<Knot(i), Knot(i + 1)>>,
   coefficients |-> <<(<<1>>)>>]

InnerPoints == {x \in 0..(4 * MaxBreak) : x \notin KnotValues}

(* The value at x of the B-spline of k coefficients at knot i, as the      *)
(* generator computes it, in units of 1 / KnotUnit^(k-1); 0 when the call  *)
(* fails.                                                                  *)
BValue(k, i, x) ==
  LET b == generateBSpline(bsg, k, i)
  IN IF b.err = NoError THEN evaluate(b.splines[1], x) ELSE 0

(* The two terms of the recursion at x, in units of 1 / KnotUnit^(k-1).    *)
FirstTerm(k, i, x) ==
  IF Knot(i + k - 1) > Knot(i)
  THEN (x - Knot(i)) * (KnotUnit \div (Knot(i + k - 1) - Knot(i)))
         * BValue(k - 1, i, x)
  ELSE 0
SecondTerm(k, i, x) ==
  IF Knot(i + k) > Knot(i + 1)
  THEN (Knot(i + k) - x) * (KnotUnit \div (Knot(i + k) - Knot(i + 1)))
         * BValue(k - 1, i + 1, x)
  ELSE 0

(* C23: for k > 1 and non-decreasing knots, generateBSpline<k>(i) returns  *)
(* without an error the sum of w1 * B(i,k-1), present exactly when         *)
(* knot[i+k-1] > knot[i], and w2 * B(i+1,k-1), present exactly when        *)
(* knot[i+k] > knot[i+1]; the generators of order k - 1 used do not fail,  *)
(* and the result is the zero spline when both differences are zero.       *)
C23_Recursion ==
  (/\ gop = "generateBSpline"
   /\ gcall.k > 1
   /\ gcall.i + gcall.k < KnotCount
   /\ NonDecreasing(bsg.knots)) =>
    LET k == gcall.k
        i == gcall.i
    IN /\ gres.err = NoError
       /\ Len(gres.splines) = 1
       /\ GR.order = k - 1
       /\ \A x \in InnerPoints :
            evaluate(GR, x) = FirstTerm(k, i, x) + SecondTerm(k, i, x)
       /\ Knot(i + k - 1) > Knot(i) =>
            generateBSpline(bsg, k - 1, i).err = NoError
       /\ Knot(i + k) > Knot(i + 1) =>
            generateBSpline(bsg, k - 1, i + 1).err = NoError
       /\ (Knot(i + k - 1) = Knot(i) /\ Knot(i + k) = Knot(i + 1)) =>
            (GR = EmptySpline(k - 1) /\ isZero(GR))

C23_Witness ==
  /\ gop = "generateBSpline"
  /\ gcall.k = 3
  /\ gcall.i + gcall.k < KnotCount
  /\ NonDecreasing(bsg.knots)
  /\ gres.err = NoError
  /\ Knot(gcall.i + 2) > Knot(gcall.i)
  /\ Knot(gcall.i + 3) > Knot(gcall.i + 1)
  /\ \E x \in InnerPoints :
       FirstTerm(3, gcall.i, x) > 0 /\ evaluate(GR, x) > FirstTerm(3, gcall.i, x)

(* C24 as stated: generateBSplines<k>() fails with Undetermined if and     *)
(* only if there are fewer than k knots; otherwise it returns exactly      *)
(* knotCount - k splines, the i-th being generateBSpline<k>(i), and reads  *)
(* no knot index >= knotCount.                                             *)
C24_GenerateAllAsStated ==
  gop = "generateBSplines" =>
    /\ (gres.err = Undetermined) <=> (KnotCount < gcall.k)
    /\ KnotCount >= gcall.k =>
         /\ gres.err = NoError
         /\ Len(gres.splines) = KnotCount - gcall.k
         /\ \A i \in 0..(KnotCount - gcall.k - 1) :
              /\ generateBSpline(bsg, gcall.k, i).err = NoError
              /\ gres.splines[i + 1] = generateBSpline(bsg, gcall.k, i).splines[1]
         /\ \A j \in gres.reads : j < KnotCount

(* C24, amended: generateBSplines<k>() fails with Undetermined if and only *)
(* if there are fewer than k knots or k = 1 and knot[i] >= knot[i+1] for   *)
(* some i < knotCount - 1; whenever it returns, it returns exactly         *)
(* knotCount - k splines, the i-th being generateBSpline<k>(i), and it     *)
(* does return for non-decreasing knots that do not make it fail as said;  *)
(* in no case is a knot index >= knotCount read.                           *)
C24_GenerateAll ==
  gop = "generateBSplines" =>
    LET k == gcall.k
        zeroWidth == k = 1 /\ \E i \in 0..(KnotCount - 2) : Knot(i) >= Knot(i + 1)
    IN /\ (gres.err = Undetermined) <=> (KnotCount < k \/ zeroWidth)
       /\ gres.err = NoError =>
            /\ Len(gres.splines) = KnotCount - k
            /\ \A i \in 0..(KnotCount - k - 1) :
                 /\ generateBSpline(bsg, k, i).err = NoError
                 /\ gres.splines[i + 1] = generateBSpline(bsg, k, i).splines[1]
       /\ (NonDecreasing(bsg.knots) /\ KnotCount >= k /\ ~zeroWidth) =>
            gres.err = NoError
       /\ \A j \in gres.reads : j < KnotCount

C24_Witness ==
  /\ gop = "generateBSplines"
  /\ gcall.k = 2
  /\ KnotCount = 4
  /\ gres.err = NoError
  /\ Len(gres.splines) = 2
  /\ gres.reads = 0..3

(* The knots with repeated values removed, order preserved.                *)
RECURSIVE WithoutRepeats(_)
WithoutRepeats(v) ==
  IF v = <<>> THEN <<>>
  ELSE LET front == WithoutRepeats(SubSeq(v, 1, Len(v) - 1))
       IN IF \E j \in 1..(Len(v) - 1) : v[j] = v[Len(v)] THEN front
          ELSE Append(front, v[Len(v)])

RECURSIVE SumOfValues(_, _)
SumOfValues(list, x) ==
  IF list = <<>> THEN 0
  ELSE evaluate(Head(list), x) + SumOfValues(Tail(list), x)

(* C26: for non-decreasing knots and every k, the splines returned by      *)
(* generateBSplines<k>() add up to 1 at every x strictly inside a grid     *)
(* interval between knot[k-1] and knot[knotCount-k].                       *)
C26_PartitionOfUnity ==
  (gop = "generateBSplines" /\ NonDecreasing(bsg.knots) /\ gres.err = NoError) =>
    \A x \in InnerPoints :
      (Knot(gcall.k - 1) < x /\ x < Knot(KnotCount - gcall.k)) =>
        SumOfValues(gres.splines, x) = Pow(KnotUnit, gcall.k - 1)

C26_Witness ==
  /\ gop = "generateBSplines"
  /\ gcall.k = 3
  /\ gres.err = NoError
  /\ KnotCount = 6
  /\ Knot(2) < Knot(3)
  /\ \E x \in InnerPoints :
       /\ Knot(2) < x /\ x < Knot(3)
       /\ \A j \in 1..3 : evaluate(gres.splines[j], x) > 0
       /\ SumOfValues(gres.splines, x) = Pow(KnotUnit, 2)

----------------------------------------------------------------------------
(* C28: relativeFromAbsolute(index) returns a value only when the interval *)
(* of the grid with that index lies in the support, so that every value r  *)
(* returned is an interval index of the support, r < numberOfIntervals();  *)
(* for the index of an interval outside the support it returns nothing.    *)
C28_RelativeIndexIsInterval ==
  op = "relativeFromAbsolute" =>
    LET contained == A.start <= args.n /\ args.n + 1 < A.end
    IN /\ res.bool => (contained /\ res.num < A.end - A.start - 1)
       /\ ~contained => ~res.bool

(* C29: in the loops over the intervals of the intersection, of            *)
(* helperAnalyticIntegration and of the numerical integrate, every index   *)
(* interv below the number of intervals has an absolute index that both    *)
(* supports translate, so value() is never taken of an empty optional, and *)
(* the relative index r found in each support has r + 1 < size().          *)
C29_LoopIndices ==
  /\ ires.err \notin {BadOptionalAccess, AssertionFailed}
  /\ ipc \in {"loop", "returned"} =>
       /\ Len(visited) <= ires.nintervals
       /\ ires.nintervals = Max2(isup.end - isup.start - 1, 0)
       /\ \A n \in 1..Len(visited) :
            /\ visited[n].abs = isup.start + n - 1
            /\ visited[n].i1 = visited[n].abs - im["m1"].start
            /\ visited[n].i2 = visited[n].abs - im["m2"].start
            /\ visited[n].i1 >= 0 /\ visited[n].i1 + 1 < im["m1"].end - im["m1"].start
            /\ visited[n].i2 >= 0 /\ visited[n].i2 + 1 < im["m2"].end - im["m2"].start
  /\ (ipc = "returned" /\ ires.err = NoError) => Len(visited) = ires.nintervals

C29_Witness ==
  /\ ipc = "returned"
  /\ ires.err = NoError
  /\ Len(visited) >= 1
  /\ visited[Len(visited)].i1 # visited[Len(visited)].i2
  /\ visited[Len(visited)].i1 + 2 = im["m1"].end - im["m1"].start

(* The points of the grid g from lo to hi.                                 *)
GridPointsBetween(g, lo, hi) ==
  {g[i] : i \in {j \in DOMAIN g : lo <= g[j] /\ g[j] <= hi}}

(* C30: the sum (operator+, operator+=) of two splines whose break points  *)
(* are runs of one grid, overlapping, touching or apart, is a spline on    *)
(* that grid: its break points are exactly the points of the grid from the *)
(* least to the greatest break point of the two, and its coefficients are  *)
(* zero on every grid interval neither operand covers.                     *)
C30_SumOnGrid ==
  (sop \in {"operator+", "operator+="} /\ Len(R.intervals) > 0) =>
    /\ sres.err = NoError
    /\ Points(R) =
         GridPointsBetween(mgrid["m1"], R.intervals[1], R.intervals[Len(R.intervals)])
    /\ sop = "operator+" =>
         /\ R.intervals[1] = MinOf(Points(M1) \cup Points(M2))
         /\ \A x \in Points(M1) \cup Points(M2) : x <= R.intervals[Len(R.intervals)]
         /\ \A i \in DOMAIN R.coefficients :
              (/\ ~Covers(M1, R.intervals[i], R.intervals[i + 1])
               /\ ~Covers(M2, R.intervals[i], R.intervals[i + 1]))
                => \A k \in DOMAIN R.coefficients[i] : R.coefficients[i][k] = 0

----------------------------------------------------------------------------
(* Vocabulary of the property of the analytical integrals.                 *)

RECURSIVE SumFn(_)
SumFn(f) ==
  IF DOMAIN f = {} THEN 0
  ELSE LET x == CHOOSE x \in DOMAIN f : TRUE
       IN f[x] + SumFn([y \in DOMAIN f \ {x} |-> f[y]])

(* The product whose integral routine r is said to return, built with the  *)
(* spline algebra.                                                         *)
ProductOf(r) ==
  LET x1 == timesx(M1).spline
      x2 == timesx(x1).spline
      d1 == dx(M2, 1).spline
      d2 == dx(M2, 2).spline
  IN CASE r = "overlap" -> operatorTimes(M1, M2)
       [] r = "integrate_x" -> operatorTimes(x1, M2)
       [] r = "integrate_x2" -> operatorTimes(x2, M2)
       [] r = "integrate_dx" -> operatorTimes(M1, d1)
       [] r = "integrate_x_dx" -> operatorTimes(x1, d1)
       [] r = "integrate_dx2" -> operatorTimes(M1, d2)
       [] r = "integrate_x_dx2" -> operatorTimes(x1, d2)
       [] r = "integrate_x2_dx2" -> operatorTimes(x2, d2)

(* The weight w(x) of routine r as a polynomial in t = x - xm, and the     *)
(* number of derivatives routine r takes of the second spline.             *)
WeightOf(r, xm) ==
  IF r \in {"overlap", "integrate_dx", "integrate_dx2"} THEN <<1>>
  ELSE IF r \in {"integrate_x", "integrate_x_dx", "integrate_x_dx2"}
  THEN <<xm, 1>>
  ELSE <<xm * xm, 2 * xm, 1>>

DerivativesOf(r) ==
  IF r \in {"overlap", "integrate_x", "integrate_x2"} THEN 0
  ELSE IF r \in {"integrate_dx", "integrate_x_dx"} THEN 1
  ELSE 2

(* The coefficients of the n-th derivative of the polynomial b.            *)
DerivativeCoefs(b, n) ==
  [k \in 1..Max2(Len(b) - n, 0) |->
     b[k + n] * (IF n = 0 THEN 1
                 ELSE IF n = 1 THEN k
                 ELSE k * (k + 1))]

(* The integral of t^n over [-h, h], in units of 1 / IntegUnit.            *)
MonomialIntegral(n, h) ==
  IF n % 2 = 0 THEN 2 * Pow(h, n + 1) * (IntegUnit \div (n + 1)) ELSE 0

(* The integral of a(t) w(x) d^n/dx^n b(t) over the interval [x0, x1].     *)
ExactOnInterval(r, a, b, x0, x1) ==
  LET h == (x1 - x0) \div 2
      w == WeightOf(r, (x1 + x0) \div 2)
      d == DerivativeCoefs(b, DerivativesOf(r))
  IN SumFn([t \in (1..Len(a)) \X (1..Len(d)) \X (1..Len(w)) |->
              a[t[1]] * d[t[2]] * w[t[3]]
                * MonomialIntegral(t[1] + t[2] + t[3] - 3, h)])

(* The intervals of the grid that lie in the supports of both splines, as  *)
(* pairs of the interval numbers in m1 and m2.                             *)
CommonIntervals ==
  {c \in (DOMAIN M1.coefficients) \X (DOMAIN M2.coefficients) :
     /\ M1.intervals[c[1]] = M2.intervals[c[2]]
     /\ M1.intervals[c[1] + 1] = M2.intervals[c[2] + 1]}

ExactIntegral(r) ==
  SumFn([c \in CommonIntervals |->
           ExactOnInterval(r, M1.coefficients[c[1]], M2.coefficients[c[2]],
                           M1.intervals[c[1]], M1.intervals[c[1] + 1])])

(* C27: for splines m1 and m2 on one grid every analytical integral of two *)
(* splines adds up what the grid intervals common to both supports         *)
(* contribute, 0 when there is none, and returns the exact integral of     *)
(* m1(x) w(x) m2(x), which is also what integrate() returns for the        *)
(* product built with the spline algebra: m1 * m2 for overlap,             *)
(* timesx(m1) * m2 for integrate_x, m1 * dx(m2) for integrate_dx, and so   *)
(* on for the eight routines.                                              *)
C27_AnalyticalIntegrals ==
  sop \in AnalyticRoutines =>
    /\ sres.err = NoError
    /\ CommonIntervals = {} => scall.val = 0
    /\ scall.val = ExactIntegral(sop)
    /\ ProductOf(sop).err = NoError
    /\ scall.val = integrate(ProductOf(sop).spline)

C27_Witness ==
  /\ sop = "integrate_x2_dx2"
  /\ M1.order = 1 /\ M2.order = 2
  /\ Cardinality(CommonIntervals) >= 1
  /\ Len(M1.coefficients) > Cardinality(CommonIntervals)
  /\ Len(M2.coefficients) > Cardinality(CommonIntervals)
  /\ scall.val # 0
  /\ scall.val # helper_analytic_integration("integrate_dx2", M1, M2).val
  /\ scall.val = integrate(ProductOf(sop).spline)

====
